---- MODULE Spec2Model ----
(***************************************************************************)
(* Streaming playback scheduler of the PromptDjMidi component              *)
(* (src/unnamed/part_000): the playback state machine, the chunk           *)
(* scheduling handler, the remote session callbacks and the play / pause / *)
(* stop requests.  Every `await` of the source is a suspension point: the  *)
(* part of a handler before it and the part after it are separate steps,   *)
(* and any other handler may run in between.                               *)
(***************************************************************************)
EXTENDS Integers, Sequences, FiniteSets, TLC

\* ---- bounds of the model ------------------------------------------------
MaxSessions == 2      \* connects to the remote service in one behaviour
MaxChunks   == 3      \* chunk messages delivered in one behaviour
MaxDur      == 2      \* longest chunk duration, in clock ticks
MaxTime     == 4      \* ticks one audio context's clock is followed for
MaxPending  == 1      \* commands of one kind awaited at the same time
MaxDecodeTicks == 1   \* ticks a chunk's decode may take
MaxKnobs    == 1      \* knobs of a generated configuration
MaxRequests == 4      \* operations the user asks for in one behaviour (a stop followed by
                      \* a restart or a reset is two)
MaxFaults   == 1      \* failures (rejected calls, transport errors, audio init) in one behaviour
MaxInFlight == 2      \* handlers suspended in an await at the same time
MaxInputs   == 4      \* requests, chunk messages and failures together in one behaviour;
                      \* one more where a behaviour is followed further (DeepSpec)
MaxPrompts  == 2      \* knobs of a configuration where the prompts are followed
MaxWeight   == 2      \* largest prompt weight
MaxDelayTime == 1     \* longest delay time of the effect parameters
MaxFeedback == 1      \* largest delay feedback of the effect parameters
MaxFrequency == 1     \* highest filter frequency of the effect parameters
MaxQ        == 1      \* largest filter Q of the effect parameters
MaxBytes    == 4      \* longest byte array that is encoded to base64
MaxPcmBytes == 8      \* longest byte stream that is decoded to audio
MaxChannels == 2      \* most channels of a decoded stream

\* ---- program constants --------------------------------------------------
DEFAULT_CLIENT_BUFFER_TIME == 2
TOTAL_KNOBS == 16
DEFAULT_SAMPLE_RATE == 48000
AVAILABLE_SAMPLE_RATES == {16000, 24000, 32000, 44100, DEFAULT_SAMPLE_RATE}

SessionIds     == 1..MaxSessions
ChunkDurations == 1..MaxDur
PlaybackStates == {"stopped", "loading", "playing", "paused"}
PromptWeights  == 0..MaxWeight

\* The effect parameters that are applied: EffectParameters, with the numbers
\* drawn from small ranges.
ImpulseResponses == {"cathedral", "small_room", "cave", "none"}
FilterTypes == {"lowpass", "highpass", "bandpass"}
EffectParameters ==
  [ reverb : [impulseResponse : {"cathedral", "none"}],
    delay : [enabled : BOOLEAN, time : 1..MaxDelayTime, feedback : 1..MaxFeedback],
    filter : [enabled : BOOLEAN, type : FilterTypes, frequency : 1..MaxFrequency,
              q : 1..MaxQ] ]

VARIABLES
  playbackState,        \* this.playbackState
  setupComplete,        \* this.setupComplete
  serverSetupComplete,  \* this.serverSetupComplete
  connectionError,      \* this.connectionError
  session,              \* this.session: 0 is undefined, else a session id
  audioContext,         \* this.audioContext: "none" (null), "suspended", "running"
  currentTime,          \* this.audioContext.currentTime
  sources,              \* buffer sources started on the current context and not ended
  nextStartTime,        \* this.nextStartTime, the scheduling anchor
  isRecording,          \* this.isRecording
  recordedAudioChunks,  \* this.recordedAudioChunks (chunk ids)
  prompts,              \* this.prompts in insertion order: [cc, weight]
  isEffectsChainActive, \* this.isEffectsChainActive
  graph,                \* the connections between the nodes that the fields hold
  fx,                   \* the settings of the convolver, delay, feedback and filter nodes
  sessions,             \* the remote sessions created by connect
  decodeQueue,          \* chunk handlers suspended in await decodeAudioData
  timers,               \* pending deferred checks: remaining delay -> count
  pending,              \* requests suspended in an await: kind -> count
  nChunks,              \* chunk messages delivered so far
  nRequests,            \* user requests made so far
  nFaults,              \* failures injected so far
  quiet,                \* environment: no user request and no failure from here on
  run,                  \* ghost: the chunks laid since the anchor was last set from 0
  episode,              \* ghost: earliest start among the chunks scheduled since the
                        \* state last entered loading; -1 when there is none
  ev,                   \* ghost: the handler step taken last, and what it did
  util,                 \* a call of the functions of utils/audio and utils/effects:
                        \* the arguments, the functions applied, their results
  inputs                \* the requests, chunk messages and failures one behaviour is
                        \* followed for

\* The component and its environment.
component ==
  << playbackState, setupComplete, serverSetupComplete, connectionError,
     session, audioContext, currentTime, sources, nextStartTime,
     isRecording, recordedAudioChunks, prompts, isEffectsChainActive,
     graph, fx, sessions, decodeQueue, timers, pending, nChunks,
     nRequests, nFaults, quiet, run, episode, ev >>

vars == << component, util, inputs >>

\* run.base is the clock when the anchor was set from 0, run.arrived the clock
\* when that chunk's message arrived, run.starts and run.durs the start times
\* and the durations of the chunks started since, in order.
NoRun == [valid |-> FALSE, base |-> 0, arrived |-> 0, starts |-> << >>,
          durs |-> << >>]

\* The nodes as createConvolver, createDelay, createGain and
\* createBiquadFilter make them: no kernel, delay time 0, gain 1, a lowpass
\* at 350 Hz with Q 1.
NodeDefaults ==
  [ buffer |-> "null", delayTime |-> 0, feedback |-> 1, type |-> "lowpass",
    frequency |-> 350, q |-> 1 ]

\* No effect parameters.
NoParams ==
  [ reverb |-> [impulseResponse |-> ""],
    delay |-> [enabled |-> FALSE, time |-> 0, feedback |-> 0],
    filter |-> [enabled |-> FALSE, type |-> "", frequency |-> 0, q |-> 0] ]

\* ev.op names the step and ev.st the playback state it began in; for a chunk
\* that was started, ev.start and ev.dur are the arguments of source.start and
\* ev.stale tells whether stop() had torn down the session that delivered it;
\* for the end of stop(), ev.req tells whether it is reached in the step of
\* the request, nothing having been awaited; for a change of the prompts,
\* ev.asked tells whether setSessionPrompts was called; for a call of
\* session.setWeightedPrompts, ev.push is its argument, and ev.calls the
\* number of calls of the throttled function that it answers; for a
\* setup-complete message that finds no prompts, ev.sess is the session that
\* delivered it; for a call of applyEffectParameters, ev.params is its
\* argument and ev.prev the settings of the nodes before it.
Ev(op) == [op |-> op, st |-> "", stale |-> FALSE, start |-> 0, dur |-> 0,
           req |-> FALSE, asked |-> FALSE, push |-> << >>, calls |-> 0,
           sess |-> 0, params |-> NoParams, prev |-> NodeDefaults]

\* The component and its environment as one record, so that a handler is a
\* function from the state before it to the state after it.
Cur ==
  [ playbackState |-> playbackState, setupComplete |-> setupComplete,
    serverSetupComplete |-> serverSetupComplete,
    connectionError |-> connectionError, session |-> session,
    audioContext |-> audioContext, currentTime |-> currentTime,
    sources |-> sources, nextStartTime |-> nextStartTime,
    isRecording |-> isRecording, recordedAudioChunks |-> recordedAudioChunks,
    prompts |-> prompts, isEffectsChainActive |-> isEffectsChainActive,
    graph |-> graph, fx |-> fx,
    sessions |-> sessions, decodeQueue |-> decodeQueue,
    timers |-> timers, pending |-> pending, nChunks |-> nChunks,
    nRequests |-> nRequests, nFaults |-> nFaults, quiet |-> quiet,
    run |-> run, episode |-> episode, ev |-> Ev(""), overflow |-> FALSE ]

Set(a) ==
  /\ playbackState' = a.playbackState
  /\ setupComplete' = a.setupComplete
  /\ serverSetupComplete' = a.serverSetupComplete
  /\ connectionError' = a.connectionError
  /\ session' = a.session
  /\ audioContext' = a.audioContext
  /\ currentTime' = a.currentTime
  /\ sources' = a.sources
  /\ nextStartTime' = a.nextStartTime
  /\ isRecording' = a.isRecording
  /\ recordedAudioChunks' = a.recordedAudioChunks
  /\ prompts' = a.prompts
  /\ isEffectsChainActive' = a.isEffectsChainActive
  /\ graph' = a.graph
  /\ fx' = a.fx
  /\ sessions' = a.sessions
  /\ decodeQueue' = a.decodeQueue
  /\ timers' = a.timers
  /\ pending' = a.pending
  /\ nChunks' = a.nChunks
  /\ nRequests' = a.nRequests
  /\ nFaults' = a.nFaults
  /\ quiet' = a.quiet
  /\ run' = a.run
  /\ UNCHANGED << util, inputs >>

\* The handlers suspended in an await.
InFlight(a) ==
  a.pending["ctxResume"] + a.pending["resume"] + a.pending["pause"]
  + a.pending["stopDev"] + a.pending["stopRegen"]
  + a.pending["devPlay"] + a.pending["regenTail"]
  + (IF a.pending["throttle"] > 0 THEN 1 ELSE 0) + a.pending["setPrompts"]
  + a.pending["smartEffects"]
  + Cardinality({s \in DOMAIN a.sessions :
                   a.sessions[s].status = "connecting" \/ a.sessions[s].handler # "idle"})
  + Len(a.decodeQueue)

\* A handler step: the state after it is h, and ev records it as op unless
\* the handler named what it did.  A step that would exceed a bound of the
\* model (overflow) is not taken.  One tick of the clock is one second.
Step(h, op) ==
  \E a \in {h} :
    /\ ~a.overflow
    /\ InFlight(a) <= MaxInFlight \/ InFlight(a) <= InFlight(Cur)
    /\ a.nRequests + a.nChunks + a.nFaults <= inputs
    /\ Set(a)
    /\ episode' = IF a.playbackState # "loading" THEN -1
                  ELSE IF playbackState # "loading" THEN -1
                  ELSE IF a.ev.op = "started" /\ (episode = -1 \/ a.ev.start < episode)
                    THEN a.ev.start
                  ELSE episode
    /\ ev' = [(IF a.ev.op = "" THEN Ev(op) ELSE a.ev) EXCEPT
                !.st = IF a.ev.op \in {"started", "underrun", "stopDone", "error", "close"}
                            \/ (a.ev.op = "" /\ op \in {"pushFailed", "devPlay"})
                         THEN playbackState ELSE @,
                !.req = a.ev.op = "stopDone" /\ a.nRequests # nRequests]

\* The handler names what it did.
Say(a, op) == [a EXCEPT !.ev = Ev(op)]

NoTimers == [d \in 0..DEFAULT_CLIENT_BUFFER_TIME |-> 0]

NewSession == [status |-> "unused", setupSent |-> FALSE, prompted |-> FALSE,
               played |-> FALSE,
               tornDown |-> FALSE, handler |-> "idle"]

PendingKinds == {"ctxResume", "resume", "pause", "stopDev", "stopRegen",
                 "devPlay", "regenTail", "throttle", "setPrompts",
                 "smartEffects"}

\* ---- helpers --------------------------------------------------------------
\* A failure counts against the bound on failures.
Fault(a) ==
  [a EXCEPT !.nFaults = @ + 1,
            !.overflow = @ \/ a.nFaults >= MaxFaults \/ a.quiet]

Usable(a) == a.session # 0 /\ ~a.connectionError

AddPending(a, k) ==
  [a EXCEPT !.pending[k] = @ + 1,
            !.overflow = @ \/ a.pending[k] >= MaxPending]
DelPending(a, k) == [a EXCEPT !.pending[k] = @ - 1]

\* A session whose transport is closing or closed delivers no message any
\* more: only its status and the handler still suspended on it matter.
Ended(r, status) == [NewSession EXCEPT !.status = status, !.handler = r.handler]

\* session.close() on the handle s: an open transport starts closing, and its
\* close event is delivered later; no message is delivered after close().
closeSession(a, s) ==
  IF s # 0 /\ a.sessions[s].status = "open"
    THEN [a EXCEPT !.sessions[s] = Ended(@, "closing")]
    ELSE a

\* session.play() on the handle s: the command reaches an open session, which
\* then streams chunks.
sendPlay(a, s) ==
  IF s # 0 /\ a.sessions[s].status = "open"
    THEN [a EXCEPT !.sessions[s].played = TRUE]
    ELSE a

\* A variant that arms nothing.
armTimer_never(a) == a

\* setTimeout(check, devClientBufferTime * 1000)
armTimer(a) ==
  [a EXCEPT !.timers[DEFAULT_CLIENT_BUFFER_TIME] = @ + 1]

\* ---- the audio graph ---------------------------------------------------------
\* WET path: input -> filter -> delay -> convolver -> bypass, with the
\* feedback loop around the delay.
WetPath ==
  { <<"effectsInput", "filter">>, <<"filter", "delay">>,
    <<"delay", "feedback">>, <<"feedback", "delay">>,
    <<"delay", "convolver">>, <<"convolver", "effectsBypass">> }

\* bypass node -> analyser -> destination
MainPath ==
  { <<"effectsBypass", "analyser">>, <<"analyser", "destination">> }

\* node.connect(to) and node.disconnect()
connect(g, node, to) == g \cup {<<node, to>>}
disconnect(g, node) == {e \in g : e[1] # node}

\* toggleEffectsChain(forceState?): forced tells whether the argument is given.
toggleEffectsChain(a, forced, forceState) ==
  LET b == [a EXCEPT !.isEffectsChainActive = IF forced THEN forceState ELSE ~@]
  IN IF b.audioContext = "none" \/ b.graph = {} THEN b
     ELSE [b EXCEPT !.graph =
             connect(disconnect(@, "output"), "output",
                     IF b.isEffectsChainActive THEN "effectsInput"
                                               ELSE "effectsBypass")]

\* ---- initAudioSystem ------------------------------------------------------
\* ok: the AudioContext constructor exists and does not throw; susp: the new
\* context starts suspended.  Closing the previous context ends its sources
\* and rejects the resume() promises awaited on it.  A construction that
\* fails where a context had been built is counted as a failure; where there
\* is no context, the environment is one that cannot build it, for as long as
\* it fails.
initAudioSystem(a, ok, susp) ==
  LET closed == [a EXCEPT !.audioContext = "none", !.currentTime = 0,
                          !.sources = {}, !.pending["ctxResume"] = 0]
      failed == [closed EXCEPT !.playbackState = "stopped",
                               !.connectionError = TRUE,
                               !.overflow = @ \/ a.quiet]
      built == [closed EXCEPT
                  !.audioContext = IF susp THEN "suspended" ELSE "running",
                  !.graph = WetPath \cup MainPath,
                  !.fx = NodeDefaults]
  IN IF ok
       THEN [toggleEffectsChain(built, TRUE, a.isEffectsChainActive) EXCEPT
               !.nextStartTime = 0,
               !.connectionError = FALSE,
               !.run = NoRun]
     ELSE IF a.audioContext = "none" THEN failed
     ELSE [failed EXCEPT !.nFaults = @ + 1,
                         !.overflow = @ \/ a.nFaults >= MaxFaults]

\* ---- applyKnobConfiguration ----------------------------------------------
\* A variant that forces the weight of the last prompt.
applyKnobConfiguration_last(a, n) ==
  LET size == IF n < TOTAL_KNOBS THEN n ELSE TOTAL_KNOBS
      newPrompts == [i \in 1..size |-> [cc |-> i - 1, weight |-> 0]]
  IN [a EXCEPT !.prompts = IF size > 0
                             THEN [newPrompts EXCEPT ![size].weight = 1]
                             ELSE newPrompts]

\* The n knobs of the groups, up to TOTAL_KNOBS of them, give prompts with cc
\* 0, 1, ... in order, all weights 0; then the weight of the first one in
\* insertion order is forced to 1 when no weight is non-zero.
applyKnobConfiguration(a, n) ==
  LET size == IF n < TOTAL_KNOBS THEN n ELSE TOTAL_KNOBS
      newPrompts == [i \in 1..size |-> [cc |-> i - 1, weight |-> 0]]
      hasNonZeroWeight == \E i \in 1..size : newPrompts[i].weight # 0
  IN [a EXCEPT !.prompts = IF ~hasNonZeroWeight /\ size > 0
                             THEN [newPrompts EXCEPT ![1].weight = 1]
                             ELSE newPrompts]

handleKnobsGenerated(a, n, ok, susp) ==
  LET b == [applyKnobConfiguration(a, n) EXCEPT !.setupComplete = TRUE]
  IN IF b.audioContext = "none" THEN initAudioSystem(b, ok, susp) ELSE b

\* ---- connectToSession.onmessage: audio chunks ----------------------------
\* A variant that checks for the stopped state only.
onmessage_audioChunks_stoppedOnly(a, s, d) ==
  LET b == [a EXCEPT !.nChunks = @ + 1]
  IN IF b.playbackState = "stopped" THEN Say(b, "chunkDropped")
     ELSE IF b.audioContext = "none" THEN Say(b, "chunkDropped")
     ELSE Say([b EXCEPT !.decodeQueue =
                 Append(@, [id |-> b.nChunks, sess |-> s, dur |-> d,
                            wait |-> 0])], "chunkQueued")

\* The part before `await decodeAudioData`: the paused/stopped check and the
\* audio context check; a chunk that passes both waits for its decode.
onmessage_audioChunks(a, s, d) ==
  LET b == [a EXCEPT !.nChunks = @ + 1]
  IN IF b.playbackState = "paused" \/ b.playbackState = "stopped"
       THEN Say(b, "chunkDropped")
     ELSE IF b.audioContext = "none" THEN Say(b, "chunkDropped")
     ELSE Say([b EXCEPT !.decodeQueue =
                 Append(@, [id |-> b.nChunks, sess |-> s, dur |-> d,
                            wait |-> 0])], "chunkQueued")

\* `if (this.nextStartTime === 0)`: the anchor is set client buffer time ahead
\* of the clock and the deferred check is armed.
setAnchor(a, c) ==
  IF a.nextStartTime = 0
    THEN [armTimer(a) EXCEPT
            !.nextStartTime = a.currentTime + DEFAULT_CLIENT_BUFFER_TIME,
            !.run = [valid |-> TRUE, base |-> a.currentTime,
                     arrived |-> a.currentTime - c.wait,
                     starts |-> << >>, durs |-> << >>]]
    ELSE a

\* A variant that leaves the anchor where it was.
rebuffer_keepAnchor(a) ==
  Say([a EXCEPT !.playbackState = "loading", !.run = NoRun],
      "underrun")

\* The underrun branch: back to loading, the anchor unset, nothing started.
rebuffer(a) ==
  Say([a EXCEPT !.playbackState = "loading", !.nextStartTime = 0,
                !.run = NoRun], "underrun")

\* A variant that advances the anchor by one tick whatever the duration.
startSource_fixedAdvance(a, c) ==
  LET src == [id |-> c.id, start |-> a.nextStartTime, dur |-> c.dur]
  IN [a EXCEPT
        !.sources = @ \cup {src},
        !.nextStartTime = @ + 1,
        !.run = IF @.valid
                  THEN [@ EXCEPT !.starts = Append(@, src.start),
                                 !.durs = Append(@, src.dur)]
                  ELSE @,
        !.ev = [Ev("started") EXCEPT !.stale = a.sessions[c.sess].tornDown,
                                     !.start = src.start, !.dur = src.dur]]

\* source.start(this.nextStartTime); this.nextStartTime += audioBuffer.duration
startSource(a, c) ==
  LET src == [id |-> c.id, start |-> a.nextStartTime, dur |-> c.dur]
  IN [a EXCEPT
        !.sources = @ \cup {src},
        !.nextStartTime = @ + c.dur,
        !.run = IF @.valid
                  THEN [@ EXCEPT !.starts = Append(@, src.start),
                                 !.durs = Append(@, src.dur)]
                  ELSE @,
        !.ev = [Ev("started") EXCEPT !.stale = a.sessions[c.sess].tornDown,
                                     !.start = src.start, !.dur = src.dur]]

\* A variant that records a chunk only when it is started.
onmessage_schedule_recordStarted(a, c) ==
  LET anch == setAnchor(a, c)
  IN IF a.audioContext = "none"
       THEN a
     ELSE IF anch.nextStartTime < anch.currentTime
       THEN rebuffer(anch)
       ELSE startSource(IF a.isRecording
                          THEN [anch EXCEPT !.recordedAudioChunks = Append(@, c.id)]
                          ELSE anch, c)

\* The part after `await decodeAudioData`, for the chunk c whose decode is
\* done: record, anchor, underrun check, start.
onmessage_schedule(a, c) ==
  LET rec == IF a.isRecording
               THEN [a EXCEPT !.recordedAudioChunks = Append(@, c.id)]
               ELSE a
      anch == setAnchor(rec, c)
  IN IF rec.audioContext = "none"
       THEN rec   \* createBufferSource throws
     ELSE IF anch.nextStartTime < anch.currentTime
       THEN rebuffer(anch)
       ELSE startSource(anch, c)

\* The deferred check armed when the anchor is set.
deferredCheck(a) ==
  IF a.playbackState = "loading"
    THEN Say([a EXCEPT !.playbackState = "playing"], "timerPlaying")
    ELSE a

\* ---- connectToSession.onmessage: setupComplete ---------------------------
\* A variant that sends the play command whatever the playback state.
onmessage_afterPrompts_anyState(a, s) ==
  IF Usable(a)
    THEN [sendPlay(a, a.session) EXCEPT !.sessions[s].handler = "play"]
    ELSE [a EXCEPT !.sessions[s].handler = "idle"]

\* After `await this.setSessionPrompts()`: the play command of a fresh session.
onmessage_afterPrompts(a, s) ==
  IF Usable(a) /\ a.playbackState \in {"loading", "playing"}
    THEN [sendPlay(a, a.session) EXCEPT !.sessions[s].handler = "play"]
    ELSE [a EXCEPT !.sessions[s].handler = "idle"]

\* A variant that sends the prompts with a non-zero weight only.
promptsToSend_nonZero(a) ==
  LET RECURSIVE pick(_)
      pick(q) == IF q = << >> THEN << >>
                 ELSE IF Head(q).weight # 0 THEN << Head(q).weight >> \o pick(Tail(q))
                 ELSE pick(Tail(q))
  IN pick(a.prompts)

\* Array.from(this.prompts.values()).map(p => ({text, weight})): one entry per
\* prompt, in insertion order; the text goes with the weight.
promptsToSend(a) == [i \in 1..Len(a.prompts) |-> a.prompts[i].weight]

\* session.setWeightedPrompts({weightedPrompts: promptsToSend})
setWeightedPrompts(a) ==
  [a EXCEPT !.ev = [Ev("pushed") EXCEPT !.push = promptsToSend(a)],
            !.sessions = IF a.session # 0 /\ a.sessions[a.session].status = "open"
                           THEN [@ EXCEPT ![a.session].prompted = TRUE]
                           ELSE @]

\* Up to the first await.  setSessionPrompts returns at once when there is no
\* usable session; otherwise its setWeightedPrompts call is awaited.
onmessage_setupComplete(a, s) ==
  LET b == [a EXCEPT !.connectionError = FALSE,
                     !.serverSetupComplete = TRUE,
                     !.sessions[s].setupSent = TRUE]
  IN IF Len(b.prompts) = 0
       THEN [closeSession([b EXCEPT !.playbackState = "stopped",
                                    !.connectionError = TRUE], b.session)
               EXCEPT !.ev = [Ev("setupEmpty") EXCEPT !.sess = s]]
     ELSE IF ~Usable(b) THEN onmessage_afterPrompts(b, s)
     ELSE [setWeightedPrompts(b) EXCEPT !.sessions[s].handler = "push"]

\* A variant that gives the session up after every failed push.
setSessionPrompts_failed_always(a) ==
  closeSession([a EXCEPT !.connectionError = TRUE,
                         !.serverSetupComplete = FALSE,
                         !.playbackState = "stopped"], a.session)

\* setSessionPrompts: the catch block of the setWeightedPrompts call.
setSessionPrompts_failed(a) ==
  IF ~a.serverSetupComplete \/ a.playbackState = "loading"
    THEN closeSession([a EXCEPT !.connectionError = TRUE,
                                !.serverSetupComplete = FALSE,
                                !.playbackState = "stopped"], a.session)
    ELSE a

\* The catch block of the play command sent after setup: the command failed,
\* and the session streams nothing.
onmessage_playFailed(a, s) ==
  [a EXCEPT !.playbackState = "stopped", !.connectionError = TRUE,
            !.sessions[s].handler = "idle",
            !.sessions[s].played = FALSE]

\* ---- setSessionPrompts, onPromptChange, loadPreset --------------------------
\* A variant that sends the collection even when it is empty.
setSessionPrompts_sendEmpty(a) ==
  IF ~Usable(a) THEN a
  ELSE IF ~a.serverSetupComplete /\ a.playbackState = "loading" THEN a
  ELSE AddPending(setWeightedPrompts(a), "setPrompts")

\* The function that throttle() wraps, up to its await: nothing without a
\* usable session or before the server's setup is complete while loading; an
\* empty collection stops playback and closes the session; otherwise the
\* whole collection is sent and the call awaited.
setSessionPrompts(a) ==
  IF ~Usable(a) THEN a
  ELSE IF ~a.serverSetupComplete /\ a.playbackState = "loading" THEN a
  ELSE IF Len(promptsToSend(a)) = 0
    THEN Say(closeSession([a EXCEPT !.playbackState = "stopped"], a.session),
             "pushAborted")
  ELSE AddPending(setWeightedPrompts(a), "setPrompts")

\* A call of the throttled setSessionPrompts: the calls of one throttle
\* window make one invocation of the wrapped function, at the end of the
\* window.  pending["throttle"] counts the calls of the open window.
throttle_call(a) == [a EXCEPT !.pending["throttle"] = @ + 1]

\* The end of the throttle window: the one invocation it makes.
throttle_fire(a) ==
  LET b == setSessionPrompts([a EXCEPT !.pending["throttle"] = 0])
  IN IF b.ev.op = "" THEN b
     ELSE [b EXCEPT !.ev.calls = a.pending["throttle"]]

\* A variant that invokes setSessionPrompts at every event, unthrottled.
onPromptChange_unthrottled(a, i, w) ==
  IF i \notin 1..Len(a.prompts) THEN a
  ELSE LET b == [a EXCEPT !.prompts[i].weight = w]
       IN IF b.session # 0 /\ b.serverSetupComplete
             /\ (b.playbackState = "playing" \/ b.playbackState = "paused")
            THEN [setSessionPrompts(b) EXCEPT
                    !.ev = [Ev("promptChange") EXCEPT !.asked = TRUE]]
            ELSE Say(b, "promptChange")

\* The prompt-changed event for the i-th prompt with the new weight w; an
\* event that names no existing prompt changes nothing.
onPromptChange(a, i, w) ==
  IF i \notin 1..Len(a.prompts) THEN a
  ELSE LET b == [a EXCEPT !.prompts[i].weight = w]
       IN IF b.session # 0 /\ b.serverSetupComplete
             /\ (b.playbackState = "playing" \/ b.playbackState = "paused")
            THEN [throttle_call(b) EXCEPT
                    !.ev = [Ev("promptChange") EXCEPT !.asked = TRUE]]
            ELSE Say(b, "promptChange")

\* loadPreset for a saved preset of n knobs.
loadPreset(a, n) ==
  LET b == applyKnobConfiguration(a, n)
  IN IF b.session # 0 /\ b.serverSetupComplete
        /\ (b.playbackState = "playing" \/ b.playbackState = "paused")
       THEN [throttle_call(b) EXCEPT
               !.ev = [Ev("presetLoaded") EXCEPT !.asked = TRUE]]
       ELSE Say(b, "presetLoaded")

\* ---- connectToSession.onerror / onclose ----------------------------------
onerror(a) ==
  [a EXCEPT !.connectionError = TRUE, !.serverSetupComplete = FALSE,
            !.playbackState = "stopped"]

\* A variant that connects again when the session has closed.
onclose_reconnect(a) ==
  LET b == [a EXCEPT !.connectionError = TRUE, !.serverSetupComplete = FALSE,
                     !.playbackState = "stopped"]
      free == {s \in SessionIds : b.sessions[s].status = "unused"}
  IN IF free = {} THEN b
     ELSE [b EXCEPT !.sessions[CHOOSE s \in free : TRUE].status = "connecting"]

\* A variant that marks the session unusable and leaves the playback state.
onclose_keepState(a) ==
  [a EXCEPT !.connectionError = TRUE, !.serverSetupComplete = FALSE]

onclose(a) ==
  [a EXCEPT !.connectionError = TRUE, !.serverSetupComplete = FALSE,
            !.playbackState = IF @ # "stopped" THEN "stopped" ELSE @]

\* ---- connectToSession ----------------------------------------------------
FreeSession(a) ==
  IF \E s \in SessionIds : a.sessions[s].status = "unused"
    THEN CHOOSE s \in SessionIds :
           /\ a.sessions[s].status = "unused"
           /\ \A t \in SessionIds : a.sessions[t].status = "unused" => s <= t
    ELSE 0

\* Up to `await ai.live.music.connect(...)`.
connectToSession(a, ok, susp) ==
  LET b == IF a.audioContext = "none" THEN initAudioSystem(a, ok, susp) ELSE a
      s == FreeSession(b)
  IN IF a.audioContext = "none" /\ (b.audioContext = "none" \/ b.connectionError)
       THEN Say([b EXCEPT !.connectionError = TRUE, !.playbackState = "stopped"],
                "audioFailed")
     ELSE IF s = 0 THEN [b EXCEPT !.overflow = TRUE]
     ELSE [b EXCEPT !.serverSetupComplete = FALSE,
                    !.sessions[s].status = "connecting"]

\* connect resolved with the session s; then play() checks connectionError.
connectToSession_resolved(a, s) ==
  LET b == [a EXCEPT !.session = s, !.sessions[s].status = "open"]
  IN IF b.connectionError THEN [b EXCEPT !.playbackState = "stopped"] ELSE b

\* connect rejected: the catch block; then play() checks connectionError.
connectToSession_failed(a, s) ==
  [a EXCEPT !.sessions[s] = Ended(@, "closed"),
            !.connectionError = TRUE,
            !.serverSetupComplete = FALSE,
            !.playbackState = "stopped"]

\* ---- play ------------------------------------------------------------------
\* From `this.playbackState = 'loading'` to the next await.
play_loading(a, ok, susp) ==
  LET b == [a EXCEPT !.playbackState = "loading"]
  IN IF b.session = 0 \/ b.connectionError \/ ~b.serverSetupComplete
       THEN connectToSession(b, ok, susp)
       ELSE AddPending(sendPlay(b, b.session), "resume")

\* A variant that goes on to connect when the audio system could not be built.
play_connectAnyway(a, ok, susp) ==
  IF ~a.setupComplete THEN a
  ELSE IF a.playbackState = "playing" THEN a
  ELSE LET needInit == a.audioContext = "none" \/ a.connectionError
           b == IF needInit THEN initAudioSystem(a, ok, susp) ELSE a
           s == FreeSession(b)
       IN IF needInit /\ (b.audioContext = "none" \/ b.connectionError)
            THEN IF s = 0 THEN b
                 ELSE [b EXCEPT !.playbackState = "loading",
                                !.sessions[s].status = "connecting"]
          ELSE IF b.audioContext = "suspended"
            THEN AddPending(b, "ctxResume")
          ELSE play_loading(b, ok, susp)

\* A variant without the guard on the state playing.
play_whilePlaying(a, ok, susp) ==
  IF ~a.setupComplete THEN a
  ELSE LET needInit == a.audioContext = "none" \/ a.connectionError
           b == IF needInit THEN initAudioSystem(a, ok, susp) ELSE a
       IN IF needInit /\ (b.audioContext = "none" \/ b.connectionError)
            THEN Say([b EXCEPT !.playbackState = "stopped"], "audioFailed")
          ELSE IF b.audioContext = "suspended"
            THEN AddPending(b, "ctxResume")
          ELSE play_loading(b, ok, susp)

\* Up to the first await: the guards and the audio system check.
play(a, ok, susp) ==
  IF ~a.setupComplete THEN a
  ELSE IF a.playbackState = "playing" THEN a
  ELSE LET needInit == a.audioContext = "none" \/ a.connectionError
           b == IF needInit THEN initAudioSystem(a, ok, susp) ELSE a
       IN IF needInit /\ (b.audioContext = "none" \/ b.connectionError)
            THEN Say([b EXCEPT !.playbackState = "stopped"], "audioFailed")
          ELSE IF b.audioContext = "suspended"
            THEN AddPending(b, "ctxResume")
          ELSE play_loading(b, ok, susp)

\* After `await this.audioContext.resume()`.
play_ctxResumed(a, ok, susp) ==
  play_loading([DelPending(a, "ctxResume") EXCEPT !.audioContext = "running"],
               ok, susp)

\* After `await this.session.play()` on the resume path.
play_resumed(a) ==
  LET b == DelPending(a, "resume")
  IN IF b.audioContext # "none"
       THEN [b EXCEPT !.nextStartTime = b.currentTime + DEFAULT_CLIENT_BUFFER_TIME,
                      !.run = NoRun]
       ELSE [b EXCEPT !.playbackState = "stopped"]

\* The catch block of the resume path.
play_resumeFailed(a) ==
  [DelPending(a, "resume") EXCEPT !.playbackState = "paused"]

\* ---- pause -----------------------------------------------------------------
\* A variant that also unsets the anchor.
pause_unsetAnchor(a) ==
  IF a.playbackState # "playing" /\ a.playbackState # "loading" THEN a
  ELSE LET b == [a EXCEPT !.playbackState = "paused", !.nextStartTime = 0]
       IN IF Usable(b) /\ b.serverSetupComplete
            THEN AddPending(b, "pause")
            ELSE b

pause(a) ==
  IF a.playbackState # "playing" /\ a.playbackState # "loading" THEN a
  ELSE LET b == [a EXCEPT !.playbackState = "paused"]
       IN IF Usable(b) /\ b.serverSetupComplete
            THEN AddPending(b, "pause")
            ELSE b

\* A variant that takes the local pause back when the command has settled.
pause_settled_revert(a) ==
  [DelPending(a, "pause") EXCEPT !.playbackState = "playing"]

\* After `await this.session.pause()`, resolved or rejected: a status message.
pause_settled(a) == DelPending(a, "pause")

\* ---- stop ------------------------------------------------------------------
MarkTornDown(a, s) ==
  IF s # 0 THEN [a EXCEPT !.sessions[s].tornDown = TRUE] ELSE a

\* A variant that keeps the audio system it finds.
stop_finish_keepAudio(a, ok, susp, next) ==
  LET b == [MarkTornDown(a, a.session) EXCEPT !.session = 0]
  IN Say(AddPending([b EXCEPT !.nextStartTime = 0,
                              !.run = NoRun,
                              !.recordedAudioChunks = << >>,
                              !.isRecording = FALSE], next), "stopDone")

\* From the end of the session block to the end of stop(); next is the
\* continuation of the caller that awaits stop().
stop_finish(a, ok, susp, next) ==
  LET b == [MarkTornDown(a, a.session) EXCEPT !.session = 0]
      c == initAudioSystem(b, ok, susp)
  IN Say(AddPending([c EXCEPT !.nextStartTime = 0,
                              !.run = NoRun,
                              !.recordedAudioChunks = << >>,
                              !.isRecording = FALSE], next), "stopDone")

\* Up to `await this.session.stop()`, or to the end when no command is sent.
stop(a, ok, susp, awaited, next) ==
  LET b == [a EXCEPT !.playbackState = "stopped",
                     !.serverSetupComplete = FALSE]
  IN IF Usable(b)
       THEN AddPending(MarkTornDown(b, b.session), awaited)
       ELSE stop_finish(b, ok, susp, next)

\* After `await this.session.stop()`, resolved or rejected: the finally block
\* closes the session, then stop() goes on.
stop_settled(a, ok, susp, awaited, next) ==
  stop_finish(closeSession(DelPending(a, awaited), a.session), ok, susp, next)

\* regenerateBoard after `await this.stop()`.
regenerateBoard_tail(a) ==
  [DelPending(a, "regenTail") EXCEPT !.prompts = << >>,
                                     !.setupComplete = FALSE]

\* ---- updateAudioLevel ---------------------------------------------------------
\* The per-frame callback: it asks for the next frame and stores the level
\* that the analyser reports, or 0 when no context is running.
updateAudioLevel(a) == Say(a, "audioLevel")

\* ---- applyEffectParameters, applySmartEffects -------------------------------
\* A variant that leaves the filter as it is when the parameters disable it.
applyEffectParameters_keepFilter(a, p) ==
  IF a.audioContext = "none" THEN a
  ELSE [a EXCEPT
          !.fx.buffer = IF p.reverb.impulseResponse \in ImpulseResponses
                          THEN p.reverb.impulseResponse ELSE "null",
          !.fx.delayTime = IF p.delay.enabled THEN p.delay.time ELSE 0,
          !.fx.feedback = IF p.delay.enabled THEN p.delay.feedback ELSE 0,
          !.fx.type = IF p.filter.enabled THEN p.filter.type ELSE @,
          !.fx.frequency = IF p.filter.enabled THEN p.filter.frequency ELSE @,
          !.fx.q = IF p.filter.enabled THEN p.filter.q ELSE @,
          !.ev = [Ev("effectsApplied") EXCEPT !.params = p, !.prev = a.fx]]

\* A variant that takes a disabled filter out of the wet path.
applyEffectParameters_rewire(a, p) ==
  IF a.audioContext = "none" THEN a
  ELSE [a EXCEPT
          !.fx.buffer = IF p.reverb.impulseResponse \in ImpulseResponses
                          THEN p.reverb.impulseResponse ELSE "null",
          !.fx.delayTime = IF p.delay.enabled THEN p.delay.time ELSE 0,
          !.fx.feedback = IF p.delay.enabled THEN p.delay.feedback ELSE 0,
          !.fx.type = IF p.filter.enabled THEN p.filter.type ELSE "allpass",
          !.fx.frequency = IF p.filter.enabled THEN p.filter.frequency
                           ELSE DEFAULT_SAMPLE_RATE \div 2,
          !.fx.q = IF p.filter.enabled THEN p.filter.q ELSE 1,
          !.graph = IF p.filter.enabled
                      THEN connect(connect(disconnect(@, "effectsInput"),
                                           "effectsInput", "filter"),
                                   "filter", "delay")
                      ELSE connect(disconnect(disconnect(@, "effectsInput"),
                                              "filter"),
                                   "effectsInput", "delay"),
          !.ev = [Ev("effectsApplied") EXCEPT !.params = p, !.prev = a.fx]]

\* The kernel is the cached impulse response of that name, or null; the
\* delay time and feedback targets are those of the parameters, or 0 when the
\* delay is disabled; the filter takes the type, frequency and Q of the
\* parameters, or becomes an all-pass at half the sample rate with Q 1.
applyEffectParameters(a, p) ==
  IF a.audioContext = "none" THEN a
  ELSE [a EXCEPT
          !.fx.buffer = IF p.reverb.impulseResponse \in ImpulseResponses
                          THEN p.reverb.impulseResponse ELSE "null",
          !.fx.delayTime = IF p.delay.enabled THEN p.delay.time ELSE 0,
          !.fx.feedback = IF p.delay.enabled THEN p.delay.feedback ELSE 0,
          !.fx.type = IF p.filter.enabled THEN p.filter.type ELSE "allpass",
          !.fx.frequency = IF p.filter.enabled THEN p.filter.frequency
                           ELSE DEFAULT_SAMPLE_RATE \div 2,
          !.fx.q = IF p.filter.enabled THEN p.filter.q ELSE 1,
          !.ev = [Ev("effectsApplied") EXCEPT !.params = p, !.prev = a.fx]]

\* applySmartEffects after `await ai.models.generateContent(...)` has
\* resolved with the parameters p: they are applied, and a chain that is not
\* active is switched on.
applySmartEffects_resolved(a, p) ==
  LET b == applyEffectParameters(DelPending(a, "smartEffects"), p)
  IN IF ~b.isEffectsChainActive THEN toggleEffectsChain(b, TRUE, TRUE) ELSE b

\* ---- regenerateBoard --------------------------------------------------------
\* Up to the first await: the flag is cleared, then stop().
regenerateBoard(a, ok, susp) ==
  stop([a EXCEPT !.isEffectsChainActive = FALSE], ok, susp,
       "stopRegen", "regenTail")

\* ---- toggleRecording, saveRecording ------------------------------------------
\* The recorded chunks are merged, encoded and offered as a download; the
\* sequence itself is only read.
saveRecording(a) ==
  IF Len(a.recordedAudioChunks) = 0 THEN a
  ELSE IF a.audioContext = "none" THEN a
  ELSE Say(a, "recordingSaved")

toggleRecording(a) ==
  LET b == [a EXCEPT !.isRecording = ~@]
  IN IF b.isRecording THEN [b EXCEPT !.recordedAudioChunks = << >>]
     ELSE saveRecording(b)

\* ---- utils/audio: encode, decode --------------------------------------------
\* A binary string is the sequence of its code units, a base64 string the
\* sequence of its characters, a Uint8Array the sequence of its elements.
\* What a call returns: a value, or the fact that it threw.
Returned(v) == [threw |-> FALSE, value |-> v]
Threw == [threw |-> TRUE, value |-> << >>]

\* The base64 alphabet of btoa and atob, in the order of the 6-bit values.
B64Chars ==
  << "A", "B", "C", "D", "E", "F", "G", "H", "I", "J", "K", "L", "M",
     "N", "O", "P", "Q", "R", "S", "T", "U", "V", "W", "X", "Y", "Z",
     "a", "b", "c", "d", "e", "f", "g", "h", "i", "j", "k", "l", "m",
     "n", "o", "p", "q", "r", "s", "t", "u", "v", "w", "x", "y", "z",
     "0", "1", "2", "3", "4", "5", "6", "7", "8", "9", "+", "/" >>

B64Char(n) == B64Chars[n + 1]

B64Value(c) == CHOOSE n \in 0..63 : B64Chars[n + 1] = c

fromCharCode(n) == n % 65536

\* btoa on code units that are all at most 255: each group of three units
\* gives four characters, a last group of one or two units is padded with =.
RECURSIVE btoaGroups(_)
btoaGroups(s) ==
  IF Len(s) = 0 THEN << >>
  ELSE IF Len(s) = 1
    THEN << B64Char(s[1] \div 4), B64Char((s[1] % 4) * 16), "=", "=" >>
  ELSE IF Len(s) = 2
    THEN << B64Char(s[1] \div 4), B64Char((s[1] % 4) * 16 + s[2] \div 16),
            B64Char((s[2] % 16) * 4), "=" >>
  ELSE << B64Char(s[1] \div 4), B64Char((s[1] % 4) * 16 + s[2] \div 16),
          B64Char((s[2] % 16) * 4 + s[3] \div 64), B64Char(s[3] % 64) >>
       \o btoaGroups(SubSeq(s, 4, Len(s)))

\* btoa throws on a code unit above 255.
btoa(s) ==
  IF \E i \in 1..Len(s) : s[i] > 255 THEN Threw ELSE Returned(btoaGroups(s))

\* The 6-bit values of a base64 string without padding, as bytes: four values
\* give three bytes, a rest of two values one byte, a rest of three two bytes,
\* the bits left over being dropped.
RECURSIVE atobGroups(_)
atobGroups(q) ==
  IF Len(q) >= 4
    THEN << q[1] * 4 + q[2] \div 16, (q[2] % 16) * 16 + q[3] \div 4,
            (q[3] % 4) * 64 + q[4] >>
         \o atobGroups(SubSeq(q, 5, Len(q)))
  ELSE IF Len(q) = 3
    THEN << q[1] * 4 + q[2] \div 16, (q[2] % 16) * 16 + q[3] \div 4 >>
  ELSE IF Len(q) = 2 THEN << q[1] * 4 + q[2] \div 16 >>
  ELSE << >>

\* atob: white space is removed, one or two = at the end of a string whose
\* length is a multiple of four are removed, and the call throws when the
\* rest has a length of 1 modulo 4 or a character outside the alphabet.
atob(str) ==
  LET IsSpace(c) == c \in {" ", "\t", "\n", "\f", "\r"}
      NotSpace(c) == ~IsSpace(c)
      t == SelectSeq(str, NotSpace)
      pad == IF Len(t) % 4 # 0 \/ Len(t) = 0 THEN 0
             ELSE IF t[Len(t)] # "=" THEN 0
             ELSE IF t[Len(t) - 1] = "=" THEN 2 ELSE 1
      u == SubSeq(t, 1, Len(t) - pad)
  IN IF Len(u) % 4 = 1 THEN Threw
     ELSE IF \E i \in 1..Len(u) : \A n \in 0..63 : B64Chars[n + 1] # u[i] THEN Threw
     ELSE Returned(atobGroups([i \in 1..Len(u) |-> B64Value(u[i])]))

\* encode: the bytes as a binary string, then btoa.
encode(bytes) ==
  btoa([i \in 1..Len(bytes) |-> fromCharCode(bytes[i])])

\* A variant that stores the code units in signed bytes.
decode_signed(base64) ==
  LET r == atob(base64)
  IN IF r.threw THEN Threw
     ELSE Returned([i \in 1..Len(r.value) |->
                      IF r.value[i] >= 128 THEN r.value[i] - 256 ELSE r.value[i]])

\* decode: atob, then the code units stored in a Uint8Array.
decode(base64) ==
  LET r == atob(base64)
  IN IF r.threw THEN Threw
     ELSE Returned([i \in 1..Len(r.value) |-> r.value[i] % 256])

\* ---- utils/audio: decodeAudioData -------------------------------------------
\* A sample is the fraction num / den with den > 0; an AudioBuffer holds one
\* sequence of samples for each channel.
Sample(num, den) == [num |-> num, den |-> den]

NoBuffer ==
  [ numberOfChannels |-> 0, length |-> 0, sampleRate |-> 0,
    channelData |-> << >> ]

\* ctx.createBuffer: a silent buffer; it throws without a channel or a frame.
createBuffer(numberOfChannels, length, sampleRate) ==
  IF numberOfChannels < 1 \/ length < 1 THEN Threw
  ELSE Returned([ numberOfChannels |-> numberOfChannels, length |-> length,
                  sampleRate |-> sampleRate,
                  channelData |-> [c \in 1..numberOfChannels |->
                                     [j \in 1..length |-> Sample(0, 1)]] ])

\* buffer.copyToChannel(source, channelNumber), channelNumber counted from 0:
\* the samples of source, as far as the buffer is long.
copyToChannel(buffer, source, channelNumber) ==
  [buffer EXCEPT !.channelData[channelNumber + 1] =
     [j \in 1..buffer.length |-> IF j <= Len(source) THEN source[j] ELSE @[j]]]

\* Element i, counted from 0, of the Int16Array over the bytes: two bytes, the
\* low one first, as a signed number.
Int16ArrayAt(data, i) ==
  LET u == data[2 * i + 1] + 256 * data[2 * i + 2]
  IN IF u >= 32768 THEN u - 65536 ELSE u

\* A variant that hands every channel the first samples of the interleaved
\* stream.
decodeAudioData_interleaved(data, sampleRate, numChannels) ==
  LET even == IF Len(data) % 2 # 0 THEN Len(data) - 1 ELSE Len(data)
      validLength ==
        IF numChannels > 0 /\ (even \div 2) % numChannels # 0
          THEN ((even \div 2) \div numChannels) * numChannels * 2
          ELSE even
  IN IF validLength = 0
       THEN createBuffer(IF numChannels # 0 THEN numChannels ELSE 1, 1, sampleRate)
     ELSE
       LET dataInt16 == [i \in 1..(validLength \div 2) |-> Int16ArrayAt(data, i - 1)]
           buffer == createBuffer(numChannels, Len(dataInt16) \div numChannels,
                                  sampleRate)
           dataFloat32 == [i \in 1..Len(dataInt16) |-> Sample(dataInt16[i], 32768)]
           Fill[i \in 0..numChannels] ==
             IF i = 0 THEN buffer.value
             ELSE copyToChannel(Fill[i - 1], dataFloat32, i - 1)
       IN IF buffer.threw THEN Threw ELSE Returned(Fill[numChannels])

\* A variant without the single-sample buffer.
decodeAudioData_noFallback(data, sampleRate, numChannels) ==
  LET even == IF Len(data) % 2 # 0 THEN Len(data) - 1 ELSE Len(data)
      validLength ==
        IF numChannels > 0 /\ (even \div 2) % numChannels # 0
          THEN ((even \div 2) \div numChannels) * numChannels * 2
          ELSE even
      dataInt16 == [i \in 1..(validLength \div 2) |-> Int16ArrayAt(data, i - 1)]
      buffer == createBuffer(numChannels, Len(dataInt16) \div numChannels,
                             sampleRate)
      dataFloat32 == [i \in 1..Len(dataInt16) |-> Sample(dataInt16[i], 32768)]
      Fill[i \in 0..numChannels] ==
        IF i = 0 THEN buffer.value
        ELSE copyToChannel(Fill[i - 1],
               [j \in 1..(Len(dataFloat32) \div numChannels) |->
                  dataFloat32[(j - 1) * numChannels + (i - 1) + 1]], i - 1)
  IN IF buffer.threw THEN Threw ELSE Returned(Fill[numChannels])

\* decodeAudioData(data, ctx, sampleRate, numChannels), data being the array
\* that decode returns (it starts at offset 0 of its own buffer): the bytes
\* that make whole frames, as 16-bit numbers divided by 32768, channel by
\* channel; one silent sample when no whole frame is there.
decodeAudioData(data, sampleRate, numChannels) ==
  LET even == IF Len(data) % 2 # 0 THEN Len(data) - 1 ELSE Len(data)
      validLength ==
        IF numChannels > 0 /\ (even \div 2) % numChannels # 0
          THEN ((even \div 2) \div numChannels) * numChannels * 2
          ELSE even
  IN IF validLength = 0
       THEN createBuffer(IF numChannels # 0 THEN numChannels ELSE 1, 1, sampleRate)
     ELSE
       LET dataInt16 == [i \in 1..(validLength \div 2) |-> Int16ArrayAt(data, i - 1)]
           buffer == createBuffer(numChannels, Len(dataInt16) \div numChannels,
                                  sampleRate)
           dataFloat32 == [i \in 1..Len(dataInt16) |-> Sample(dataInt16[i], 32768)]
           Fill[i \in 0..numChannels] ==
             IF i = 0 THEN buffer.value
             ELSE IF numChannels = 1 THEN copyToChannel(Fill[i - 1], dataFloat32, 0)
             ELSE copyToChannel(Fill[i - 1],
                    [j \in 1..(Len(dataFloat32) \div numChannels) |->
                       dataFloat32[(j - 1) * numChannels + (i - 1) + 1]], i - 1)
       IN IF buffer.threw THEN Threw ELSE Returned(Fill[numChannels])

\* ---- utils/audio: encodeWAV --------------------------------------------------
\* charCodeAt for the characters that writeString is given.
charCodeAt(c) ==
  CASE c = "R" -> 82 [] c = "I" -> 73 [] c = "F" -> 70 [] c = "W" -> 87
    [] c = "A" -> 65 [] c = "V" -> 86 [] c = "E" -> 69 [] c = "f" -> 102
    [] c = "m" -> 109 [] c = "t" -> 116 [] c = " " -> 32 [] c = "d" -> 100
    [] c = "a" -> 97

\* writeString: one byte for each character.
writeString(string) == [i \in 1..Len(string) |-> charCodeAt(string[i]) % 256]

\* view.setUint32(offset, value, true) and view.setUint16(offset, value, true):
\* the four or two low bytes of the value, the lowest first.
setUint32(value) ==
  << value % 256, (value \div 256) % 256, (value \div 65536) % 256,
     (value \div 16777216) % 256 >>

setUint16(value) ==
  LET v == value % 65536
  IN << v % 256, v \div 256 >>

\* view.setInt16(offset, value, true) for a fraction: the fraction is cut
\* towards zero, taken modulo 2^16, and written low byte first.
setInt16(num, den) ==
  LET cut == IF num >= 0 THEN num \div den ELSE 0 - ((0 - num) \div den)
  IN setUint16(cut)

\* One sample as 16 bits: clamped to [-1, 1], then scaled by 0x8000 when it is
\* negative and by 0x7FFF otherwise.
sampleTo16Bit(s) ==
  LET num == IF s.num > s.den THEN s.den
             ELSE IF s.num < 0 - s.den THEN 0 - s.den ELSE s.num
  IN IF num < 0 THEN setInt16(num * 32768, s.den)
     ELSE setInt16(num * 32767, s.den)

\* The interleaved samples from frame i on.
RECURSIVE interleavedPCM(_, _)
interleavedPCM(audioBuffer, i) ==
  IF i > audioBuffer.length THEN << >>
  ELSE LET Frame[channel \in 0..audioBuffer.numberOfChannels] ==
             IF channel = 0 THEN << >>
             ELSE Frame[channel - 1]
                  \o sampleTo16Bit(audioBuffer.channelData[channel][i])
       IN Frame[audioBuffer.numberOfChannels] \o interleavedPCM(audioBuffer, i + 1)

\* A variant whose header declares the number of frames as the data size.
encodeWAV_frameCount(audioBuffer) ==
  LET numChannels == audioBuffer.numberOfChannels
      sampleRate == audioBuffer.sampleRate
      samplesPerChannel == audioBuffer.length
      blockAlign == numChannels * (16 \div 8)
      byteRate == sampleRate * blockAlign
      dataSize == samplesPerChannel
  IN writeString(<< "R", "I", "F", "F" >>) \o setUint32(36 + dataSize)
     \o writeString(<< "W", "A", "V", "E" >>)
     \o writeString(<< "f", "m", "t", " " >>) \o setUint32(16)
     \o setUint16(1) \o setUint16(numChannels)
     \o setUint32(sampleRate) \o setUint32(byteRate)
     \o setUint16(blockAlign) \o setUint16(16)
     \o writeString(<< "d", "a", "t", "a" >>) \o setUint32(dataSize)
     \o interleavedPCM(audioBuffer, 1)

\* encodeWAV: the 44 bytes of the header, written at the offsets 0, 4, 8, 12,
\* 16, 20, 22, 24, 28, 32, 34, 36 and 40, then the samples frame by frame.
encodeWAV(audioBuffer) ==
  LET numChannels == audioBuffer.numberOfChannels
      sampleRate == audioBuffer.sampleRate
      samplesPerChannel == audioBuffer.length
      blockAlign == numChannels * (16 \div 8)
      byteRate == sampleRate * blockAlign
      dataSize == samplesPerChannel * blockAlign
  IN writeString(<< "R", "I", "F", "F" >>) \o setUint32(36 + dataSize)
     \o writeString(<< "W", "A", "V", "E" >>)
     \o writeString(<< "f", "m", "t", " " >>) \o setUint32(16)
     \o setUint16(1) \o setUint16(numChannels)
     \o setUint32(sampleRate) \o setUint32(byteRate)
     \o setUint16(blockAlign) \o setUint16(16)
     \o writeString(<< "d", "a", "t", "a" >>) \o setUint32(dataSize)
     \o interleavedPCM(audioBuffer, 1)

\* ---- utils/effects: generateImpulseResponse ---------------------------------
\* The duration of a preset in tenths of a second.
presetDuration(type) ==
  CASE type = "cathedral" -> 40
    [] type = "small_room" -> 8
    [] type = "cave" -> 25
    [] OTHER -> 10

\* The kernel of a preset: what the samples of each channel are (the one
\* sample 1 of the passthrough, or decaying noise, which is not followed
\* sample by sample).
Kernel(numberOfChannels, length, sampleRate, content) ==
  [ numberOfChannels |-> numberOfChannels, length |-> length,
    sampleRate |-> sampleRate, content |-> content ]

\* A variant that gives the passthrough the two channels of the presets.
generateImpulseResponse_stereoNone(type, sampleRate) ==
  IF type = "none"
    THEN Kernel(2, 1, sampleRate, << << Sample(1, 1) >>, << Sample(0, 1) >> >>)
  ELSE LET length == (sampleRate * presetDuration(type)) \div 10
       IN Kernel(2, length, sampleRate, << "noise", "noise" >>)

\* generateImpulseResponse(type, audioContext), sampleRate being the rate of
\* the context; createBuffer takes the whole part of the length.
generateImpulseResponse(type, sampleRate) ==
  IF type = "none"
    THEN Kernel(1, 1, sampleRate, << << Sample(1, 1) >> >>)
  ELSE LET length == (sampleRate * presetDuration(type)) \div 10
       IN Kernel(2, length, sampleRate, << "noise", "noise" >>)

\* ---- the functions of utils/audio and utils/effects, called on their own ----
\* No call.
NoCall ==
  [ fn |-> "", data |-> << >>, numChannels |-> 0, sampleRate |-> 0, type |-> "",
    called |-> << >>, base64 |-> Returned(<< >>), bytes |-> Returned(<< >>),
    audioBuffer |-> Returned(NoBuffer), wav |-> << >>,
    impulse |-> Kernel(0, 0, 0, << >>) ]

\* The byte arrays that are encoded: every array of one byte, and the arrays
\* of up to MaxBytes bytes over a few values.
ByteSamples == {0, 1, 127, 128, 255}
PcmByteSamples == {0, 128, 255}
BytesUpTo(values, n) == UNION {[1..k -> values] : k \in 0..n}

EncodeCalls ==
  { [NoCall EXCEPT !.fn = "encode", !.data = d] :
      d \in BytesUpTo(ByteSamples, MaxBytes) \cup {<< b >> : b \in 0..255} }

\* The byte streams that are decoded to audio, at the rates and the channel
\* counts of the developer settings.
DecodeAudioDataCalls ==
  { [NoCall EXCEPT !.fn = "decodeAudioData", !.data = d, !.numChannels = c,
                   !.sampleRate = r] :
      d \in BytesUpTo(PcmByteSamples, MaxPcmBytes), c \in 1..MaxChannels,
      r \in AVAILABLE_SAMPLE_RATES }

GenerateImpulseResponseCalls ==
  { [NoCall EXCEPT !.fn = "generateImpulseResponse", !.type = t,
                   !.sampleRate = r] :
      t \in ImpulseResponses, r \in AVAILABLE_SAMPLE_RATES }


\* ---- the initial state --------------------------------------------------------
ComponentInit ==
  /\ playbackState = "stopped"
  /\ setupComplete = FALSE
  /\ serverSetupComplete = FALSE
  /\ connectionError = TRUE
  /\ session = 0
  /\ audioContext = "none"
  /\ currentTime = 0
  /\ sources = {}
  /\ nextStartTime = 0
  /\ isRecording = FALSE
  /\ recordedAudioChunks = << >>
  /\ prompts = << >>
  /\ isEffectsChainActive = FALSE
  /\ graph = {}
  /\ fx = NodeDefaults
  /\ sessions = [s \in SessionIds |-> NewSession]
  /\ decodeQueue = << >>
  /\ timers = NoTimers
  /\ pending = [k \in PendingKinds |-> 0]
  /\ nChunks = 0
  /\ nRequests = 0
  /\ nFaults = 0
  /\ quiet = FALSE
  /\ run = NoRun
  /\ episode = -1
  /\ ev = Ev("init")

Init ==
  /\ ComponentInit
  /\ util = NoCall
  /\ inputs = MaxInputs

\* The same component, followed for one input more.
DeepInit ==
  /\ ComponentInit
  /\ util = NoCall
  /\ inputs = MaxInputs + 1

\* A user request of n operations counts against the bound on requests.
Request(a, n) ==
  [a EXCEPT !.nRequests = @ + n,
            !.overflow = @ \/ a.nRequests + n > MaxRequests \/ a.quiet]

\* ---- actions ----------------------------------------------------------------
\* The setup screen, shown while setup is not complete, delivers the knobs.
KnobsGenerated ==
  /\ ~setupComplete
  /\ \E n \in 1..MaxKnobs, ok \in BOOLEAN, susp \in BOOLEAN :
       Step(handleKnobsGenerated(Cur, n, ok, susp), "")

\* togglePlayPause in state stopped or paused: play().
PlayRequest ==
  /\ setupComplete
  /\ playbackState \notin {"playing", "loading"}
  /\ \E ok \in BOOLEAN, susp \in BOOLEAN : Step(play(Request(Cur, 1), ok, susp), "")

\* togglePlayPause in state playing or loading: pause().
PauseRequest ==
  /\ setupComplete
  /\ playbackState \in {"playing", "loading"}
  /\ Step(pause(Request(Cur, 1)), "pause")

PauseSettled ==
  /\ pending["pause"] > 0
  /\ Step(pause_settled(Cur), "pauseSettled")

PlayCtxResumed ==
  /\ pending["ctxResume"] > 0
  /\ \E ok \in BOOLEAN, susp \in BOOLEAN :
       Step(play_ctxResumed(Cur, ok, susp), "")

ConnectResolved ==
  \E s \in SessionIds :
    /\ sessions[s].status = "connecting"
    /\ Step(connectToSession_resolved(Cur, s), "")

ConnectRejected ==
  \E s \in SessionIds :
    /\ sessions[s].status = "connecting"
    /\ Step(connectToSession_failed(Fault(Cur), s), "")

ResumeResolved ==
  /\ pending["resume"] > 0
  /\ Step(play_resumed(Cur), "resumed")

ResumeRejected ==
  /\ pending["resume"] > 0
  /\ Step(play_resumeFailed(Fault(Cur)), "")

\* applyDevSettings: stop(), then play().
ApplyDevSettings ==
  /\ setupComplete
  /\ \E ok \in BOOLEAN, susp \in BOOLEAN :
       Step(stop(Request(Cur, 2), ok, susp, "stopDev", "devPlay"), "")

\* regenerateBoard: stop(), then the board is reset.
RegenerateBoard ==
  /\ setupComplete
  /\ \E ok \in BOOLEAN, susp \in BOOLEAN :
       Step(regenerateBoard(Request(Cur, 2), ok, susp), "")

StopDevSettled ==
  /\ pending["stopDev"] > 0
  /\ \E ok \in BOOLEAN, susp \in BOOLEAN :
       Step(stop_settled(Cur, ok, susp, "stopDev", "devPlay"), "stopDone")

StopRegenSettled ==
  /\ pending["stopRegen"] > 0
  /\ \E ok \in BOOLEAN, susp \in BOOLEAN :
       Step(stop_settled(Cur, ok, susp, "stopRegen", "regenTail"), "stopDone")

StopSettled == StopDevSettled \/ StopRegenSettled

ApplyDevSettingsPlay ==
  /\ pending["devPlay"] > 0
  /\ \E ok \in BOOLEAN, susp \in BOOLEAN :
       Step(play(DelPending(Cur, "devPlay"), ok, susp), "devPlay")

RegenerateBoardTail ==
  /\ pending["regenTail"] > 0
  /\ Step(regenerateBoard_tail(Cur), "")

ToggleRecording ==
  /\ setupComplete
  /\ Step(toggleRecording(Request(Cur, 1)), "")

\* ---- the remote session's callbacks --------------------------------------
SetupCompleteMsg ==
  \E s \in SessionIds :
    /\ sessions[s].status = "open"
    /\ ~sessions[s].setupSent
    /\ Step(onmessage_setupComplete(Cur, s), "")

PushResolved ==
  \E s \in SessionIds :
    /\ sessions[s].handler = "push"
    /\ Step(onmessage_afterPrompts(Cur, s), "")

PushRejected ==
  \E s \in SessionIds :
    /\ sessions[s].handler = "push"
    /\ Step(onmessage_afterPrompts(setSessionPrompts_failed(Fault(Cur)), s),
            "pushFailed")

PlayCmdResolved ==
  \E s \in SessionIds :
    /\ sessions[s].handler = "play"
    /\ Step([Cur EXCEPT !.sessions[s].handler = "idle"], "")

PlayCmdRejected ==
  \E s \in SessionIds :
    /\ sessions[s].handler = "play"
    /\ Step(onmessage_playFailed(Fault(Cur), s), "")

\* A session streams chunks once its play command has been carried out.
ChunkMsg ==
  \E s \in SessionIds, d \in ChunkDurations :
    /\ sessions[s].status = "open"
    /\ sessions[s].played
    /\ sessions[s].handler # "play"
    /\ nChunks < MaxChunks
    /\ Step(onmessage_audioChunks(Cur, s, d), "")

ChunkDecoded ==
  /\ decodeQueue # << >>
  /\ Step(onmessage_schedule([Cur EXCEPT !.decodeQueue = Tail(@)],
                             Head(decodeQueue)), "decoded")

\* A transport error; the transport then closes.
SessionError ==
  \E s \in SessionIds :
    /\ sessions[s].status = "open"
    /\ Step(Say([onerror(Fault(Cur)) EXCEPT !.sessions[s] = Ended(@, "errored")],
                "error"), "")

\* The close event: the server closed the session, or close() completed.
SessionClosed ==
  \E s \in SessionIds :
    /\ sessions[s].status \in {"open", "closing", "errored"}
    /\ Step(Say([onclose(IF sessions[s].status = "open" THEN Fault(Cur) ELSE Cur)
                   EXCEPT !.sessions[s] = Ended(@, "closed")], "close"), "")

\* ---- time -------------------------------------------------------------------
TimerFired ==
  /\ timers[0] > 0
  /\ Step(deferredCheck([Cur EXCEPT !.timers[0] = @ - 1]), "")

\* Something refers to the clock: an anchor, a source, a timer or a decode.
\* While nothing does, the passing of time changes nothing the program can
\* observe, and it is not followed.
ClockInUse ==
  \/ nextStartTime # 0
  \/ sources # {}
  \/ decodeQueue # << >>
  \/ \E d \in 1..DEFAULT_CLIENT_BUFFER_TIME : timers[d] > 0

\* One tick: a running context's clock advances and the sources that have
\* played to their end are gone, every timer comes one tick closer, and every
\* decode in progress has taken one tick more.  The clock is followed up to
\* MaxTime, and beyond it for as long as a deferred check is waiting.
Tick ==
  /\ ClockInUse
  /\ \/ audioContext = "running" /\ currentTime < MaxTime
     \/ \E d \in 1..DEFAULT_CLIENT_BUFFER_TIME : timers[d] > 0
  /\ \A i \in 1..Len(decodeQueue) : decodeQueue[i].wait < MaxDecodeTicks
  /\ LET now == IF audioContext = "running" THEN currentTime + 1 ELSE currentTime
     IN Step([Cur EXCEPT
                !.currentTime = now,
                !.sources = {x \in @ : x.start + x.dur > now},
                !.decodeQueue = [i \in 1..Len(@) |-> [@[i] EXCEPT !.wait = @ + 1]],
                !.timers = [d \in 0..DEFAULT_CLIENT_BUFFER_TIME |->
                              IF d = 0 THEN timers[0] + timers[1]
                              ELSE IF d = DEFAULT_CLIENT_BUFFER_TIME THEN 0
                              ELSE timers[d + 1]]], "")

Next ==
  \/ KnobsGenerated
  \/ PlayRequest
  \/ PauseRequest
  \/ PauseSettled
  \/ PlayCtxResumed
  \/ ConnectResolved
  \/ ConnectRejected
  \/ ResumeResolved
  \/ ResumeRejected
  \/ ApplyDevSettings
  \/ RegenerateBoard
  \/ StopSettled
  \/ ApplyDevSettingsPlay
  \/ RegenerateBoardTail
  \/ ToggleRecording
  \/ SetupCompleteMsg
  \/ PushResolved
  \/ PushRejected
  \/ PlayCmdResolved
  \/ PlayCmdRejected
  \/ ChunkMsg
  \/ ChunkDecoded
  \/ SessionError
  \/ SessionClosed
  \/ TimerFired
  \/ Tick

Spec == Init /\ [][Next]_vars

DeepSpec == DeepInit /\ [][Next]_vars

\* ---- the undisturbed run ----------------------------------------------------
\* From some moment on the user asks for nothing more and nothing fails.
Quiesce ==
  /\ ~quiet
  /\ quiet' = TRUE
  /\ UNCHANGED << playbackState, setupComplete, serverSetupComplete,
                  connectionError, session, audioContext, currentTime, sources,
                  nextStartTime, isRecording, recordedAudioChunks, prompts,
                  isEffectsChainActive, graph, fx,
                  sessions, decodeQueue, timers, pending, nChunks, nRequests,
                  nFaults, run, episode, ev, util, inputs >>

\* Playing, pausing and resuming on sessions that do not fail, up to the
\* moment the environment goes quiet.
LiveNext ==
  \/ KnobsGenerated
  \/ PlayRequest
  \/ PauseRequest
  \/ PauseSettled
  \/ PlayCtxResumed
  \/ ConnectResolved
  \/ ResumeResolved
  \/ SetupCompleteMsg
  \/ PushResolved
  \/ PlayCmdResolved
  \/ ChunkMsg
  \/ ChunkDecoded
  \/ TimerFired
  \/ Tick
  \/ Quiesce

\* Every promise that is awaited settles, every timer fires, the clock goes
\* on, and the session that was told to play keeps delivering chunks.
LiveFairness ==
  /\ WF_vars(PauseSettled)
  /\ WF_vars(PlayCtxResumed)
  /\ WF_vars(ConnectResolved)
  /\ WF_vars(ResumeResolved)
  /\ WF_vars(SetupCompleteMsg)
  /\ WF_vars(PushResolved)
  /\ WF_vars(PlayCmdResolved)
  /\ WF_vars(ChunkMsg)
  /\ WF_vars(ChunkDecoded)
  /\ WF_vars(TimerFired)
  /\ WF_vars(Tick)

LiveSpec == Init /\ [][LiveNext]_vars /\ LiveFairness

\* ---- the prompts and their pushes ---------------------------------------------
\* The setup screen delivers a configuration of any size.
KnobsApplied ==
  /\ ~setupComplete
  /\ \E n \in 0..MaxPrompts, ok \in BOOLEAN, susp \in BOOLEAN :
       Step(Say(handleKnobsGenerated(Cur, n, ok, susp), "knobs"), "")

\* A prompt controller reports a new weight.
PromptChange ==
  /\ setupComplete
  /\ \E i \in 1..MaxPrompts, w \in PromptWeights :
       Step(onPromptChange(Request(Cur, 1), i, w), "")

LoadPreset ==
  /\ setupComplete
  /\ \E n \in 0..MaxPrompts : Step(loadPreset(Request(Cur, 1), n), "")

\* The throttle window ends: the wrapped function is invoked.
ThrottleFire ==
  /\ pending["throttle"] > 0
  /\ Step(throttle_fire(Cur), "")

SetPromptsResolved ==
  /\ pending["setPrompts"] > 0
  /\ Step(DelPending(Cur, "setPrompts"), "")

SetPromptsRejected ==
  /\ pending["setPrompts"] > 0
  /\ Step(setSessionPrompts_failed(Fault(DelPending(Cur, "setPrompts"))),
          "pushFailed")

\* The prompts are followed through setup, playing, pausing and resuming on a
\* session that streams.
PromptNext ==
  \/ KnobsApplied
  \/ PromptChange
  \/ LoadPreset
  \/ ThrottleFire
  \/ SetPromptsResolved
  \/ SetPromptsRejected
  \/ PlayRequest
  \/ PauseRequest
  \/ PauseSettled
  \/ PlayCtxResumed
  \/ ConnectResolved
  \/ ResumeResolved
  \/ SetupCompleteMsg
  \/ PushResolved
  \/ PlayCmdResolved
  \/ ChunkMsg
  \/ ChunkDecoded
  \/ TimerFired
  \/ Tick

PromptSpec == Init /\ [][PromptNext]_vars

\* ---- the prompts in the undisturbed run ---------------------------------------
\* One prompt is followed through playing, pausing and resuming on a session
\* that does not fail, up to the moment the environment goes quiet.
PromptLiveNext ==
  \/ KnobsGenerated
  \/ PromptChange
  \/ ThrottleFire
  \/ SetPromptsResolved
  \/ PlayRequest
  \/ PauseRequest
  \/ PauseSettled
  \/ PlayCtxResumed
  \/ ConnectResolved
  \/ ResumeResolved
  \/ SetupCompleteMsg
  \/ PushResolved
  \/ PlayCmdResolved
  \/ ChunkMsg
  \/ ChunkDecoded
  \/ TimerFired
  \/ Tick
  \/ Quiesce

\* Besides LiveFairness: every throttle window ends, and every
\* setWeightedPrompts call settles.
PromptLiveFairness ==
  /\ LiveFairness
  /\ WF_vars(ThrottleFire)
  /\ WF_vars(SetPromptsResolved)

PromptLiveSpec == Init /\ [][PromptLiveNext]_vars /\ PromptLiveFairness

\* ---- the effects chain ----------------------------------------------------------
\* The checkbox of the effects panel.
ToggleEffectsChain ==
  /\ setupComplete
  /\ Step(Say(toggleEffectsChain(Request(Cur, 1), FALSE, FALSE), "effectsToggled"), "")

\* applySmartEffects up to `await ai.models.generateContent(...)`.
ApplySmartEffects ==
  /\ setupComplete
  /\ Step(AddPending(Request(Cur, 1), "smartEffects"), "")

SmartEffectsResolved ==
  /\ pending["smartEffects"] > 0
  /\ \E p \in EffectParameters : Step(applySmartEffects_resolved(Cur, p), "")

\* The request fails, or its answer does not parse: the catch block.
SmartEffectsRejected ==
  /\ pending["smartEffects"] > 0
  /\ Step(Fault(DelPending(Cur, "smartEffects")), "")

\* The effects chain is followed through setup, the start of playback, and
\* the reset of the board.
EffectsNext ==
  \/ KnobsGenerated
  \/ ToggleEffectsChain
  \/ ApplySmartEffects
  \/ SmartEffectsResolved
  \/ SmartEffectsRejected
  \/ PlayRequest
  \/ PlayCtxResumed
  \/ ConnectResolved
  \/ SetupCompleteMsg
  \/ PushResolved
  \/ PlayCmdResolved
  \/ ChunkMsg
  \/ ChunkDecoded
  \/ TimerFired
  \/ Tick
  \/ RegenerateBoard
  \/ StopRegenSettled
  \/ RegenerateBoardTail

EffectsSpec == Init /\ [][EffectsNext]_vars

\* ---- the functions of utils/audio and utils/effects: calls ------------------
UtilInit ==
  /\ ComponentInit
  /\ util \in EncodeCalls \cup DecodeAudioDataCalls \cup GenerateImpulseResponseCalls
  /\ inputs = MaxInputs

Encode ==
  /\ util.fn = "encode"
  /\ util.called = << >>
  /\ util' = [util EXCEPT !.base64 = encode(util.data),
                          !.called = Append(@, "encode")]
  /\ UNCHANGED << component, inputs >>

Decode ==
  /\ util.called = << "encode" >>
  /\ ~util.base64.threw
  /\ util' = [util EXCEPT !.bytes = decode(util.base64.value),
                          !.called = Append(@, "decode")]
  /\ UNCHANGED << component, inputs >>

DecodeAudioData ==
  /\ util.fn = "decodeAudioData"
  /\ util.called = << >>
  /\ util' = [util EXCEPT
                !.audioBuffer = decodeAudioData(util.data, util.sampleRate,
                                                util.numChannels),
                !.called = Append(@, "decodeAudioData")]
  /\ UNCHANGED << component, inputs >>

EncodeWAV ==
  /\ util.called = << "decodeAudioData" >>
  /\ ~util.audioBuffer.threw
  /\ util' = [util EXCEPT !.wav = encodeWAV(util.audioBuffer.value),
                          !.called = Append(@, "encodeWAV")]
  /\ UNCHANGED << component, inputs >>

GenerateImpulseResponse ==
  /\ util.fn = "generateImpulseResponse"
  /\ util.called = << >>
  /\ util' = [util EXCEPT
                !.impulse = generateImpulseResponse(util.type, util.sampleRate),
                !.called = Append(@, "generateImpulseResponse")]
  /\ UNCHANGED << component, inputs >>

UtilNext ==
  \/ Encode
  \/ Decode
  \/ DecodeAudioData
  \/ EncodeWAV
  \/ GenerateImpulseResponse

UtilSpec == UtilInit /\ [][UtilNext]_vars

\* ==== properties ===============================================================

\* C1: a chunk message that arrives while the playback state is paused or
\* stopped is dropped: no decode is begun for it, it is not appended to the
\* recording, no source is started and no deferred check is armed, and the
\* anchor and the playback state are what they were.
C1_DroppedWhenPausedOrStopped ==
  [][ (nChunks' = nChunks + 1 /\ playbackState \in {"paused", "stopped"})
        => /\ decodeQueue' = decodeQueue
           /\ recordedAudioChunks' = recordedAudioChunks
           /\ sources' = sources
           /\ timers' = timers
           /\ nextStartTime' = nextStartTime
           /\ playbackState' = playbackState ]_vars

\* A chunk has just been dropped in state paused while a recording is on.
C1_Witness ==
  /\ ev.op = "chunkDropped"
  /\ playbackState = "paused"
  /\ isRecording

\* C2: every chunk that is started is started while the playback state is
\* loading or playing, and was delivered by a session that stop() has not
\* torn down.
C2_NoStaleAudio ==
  ev.op = "started" => ev.st \in {"loading", "playing"} /\ ~ev.stale

RECURSIVE SumTo(_, _)
SumTo(q, k) == IF k = 0 THEN 0 ELSE q[k] + SumTo(q, k - 1)

\* C3 (as the code has it): from an unset anchor, with T the client buffer
\* time and `now` the clock when the first chunk's decode completes and the
\* handler sets the anchor, chunk k of the run is started at now + T + the
\* durations of the chunks before it, and the anchor is now + T + the
\* durations of all of them, for as long as the clock does not pass the
\* anchor.
C3_EndToEndFromAnchoring ==
  run.valid =>
    /\ \A k \in 1..Len(run.starts) :
         run.starts[k] = run.base + DEFAULT_CLIENT_BUFFER_TIME + SumTo(run.durs, k - 1)
    /\ nextStartTime =
         run.base + DEFAULT_CLIENT_BUFFER_TIME + SumTo(run.durs, Len(run.durs))

\* Three chunks of a run have been started, the last one just now.
C3_Witness ==
  /\ run.valid
  /\ Len(run.starts) = 3
  /\ ev.op = "started"
  /\ run.durs[1] # run.durs[2]

\* C3 as stated: the same with `now` the clock at the arrival of the first
\* chunk's message.
C3_EndToEndFromArrival ==
  run.valid =>
    /\ \A k \in 1..Len(run.starts) :
         run.starts[k] = run.arrived + DEFAULT_CLIENT_BUFFER_TIME + SumTo(run.durs, k - 1)
    /\ nextStartTime =
         run.arrived + DEFAULT_CLIENT_BUFFER_TIME + SumTo(run.durs, Len(run.durs))

\* Two intervals [start, start + dur) have a moment in common.
Overlaps(x, y) == x.start < y.start + y.dur /\ y.start < x.start + x.dur

\* C4: the intervals [start, start + duration) of the chunks started on the
\* audio clock do not overlap pairwise.  Two intervals that overlap belong to
\* sources that are both still sounding or waiting when the later one is
\* started, so it is enough to look at those.
C4_NoOverlap ==
  \A x \in sources, y \in sources : x.id # y.id => ~Overlaps(x, y)

\* C5: a chunk processed after its decode in state loading or playing, with a
\* non-zero anchor strictly before the clock, is not started; the state
\* becomes loading and the anchor 0.
C5_Underrun ==
  [][ ( /\ Len(decodeQueue') < Len(decodeQueue)
        /\ playbackState \in {"loading", "playing"}
        /\ nextStartTime # 0
        /\ nextStartTime < currentTime )
        => /\ sources' = sources
           /\ playbackState' = "loading"
           /\ nextStartTime' = 0 ]_vars

\* An underrun has just been detected in state playing.
C5_Witness ==
  /\ ev.op = "underrun"
  /\ ev.st = "playing"
  /\ nextStartTime = 0

\* A session has been told to play and is open, and the bounds of the model
\* leave room for a chunk message more: chunks keep arriving.
Streaming ==
  /\ \E s \in SessionIds : sessions[s].status = "open" /\ sessions[s].played
  /\ nChunks < MaxChunks
  /\ nRequests + nChunks + nFaults < inputs

C7_PlayingOnlyWhenDue ==
  [][ (playbackState # "playing" /\ playbackState' = "playing")
        => /\ playbackState = "loading"
           /\ timers'[0] = timers[0] - 1
           /\ episode # -1
           /\ episode <= currentTime ]_vars

\* The session held has accepted a play command and nothing is awaited on it.
PlayAccepted ==
  /\ session # 0
  /\ sessions[session].status = "open"
  /\ sessions[session].played
  /\ sessions[session].handler = "idle"
  /\ pending["resume"] = 0

\* C8: once a play request has been accepted by the session, when chunks keep
\* arriving and neither a request nor a failure follows, the state leaves
\* loading and becomes playing.
C8_PlayReachesPlaying ==
  (quiet /\ playbackState = "loading" /\ PlayAccepted /\ Streaming)
    ~> playbackState = "playing"

\* C9: the step of a pause request made in state playing or loading ends in
\* state paused, whether or not the remote command is sent and awaited, and
\* the step in which the awaited remote command settles (resolved or
\* rejected) leaves the playback state as it is.
C9_PauseIsLocal ==
  [][ /\ ev'.op = "pause" => playbackState' = "paused"
      /\ ev'.op = "pauseSettled" => playbackState' = playbackState ]_vars

\* The remote pause command has settled and the state is paused.
C9_Witness ==
  /\ ev.op = "pauseSettled"
  /\ playbackState = "paused"

\* C10: when stop() completes, the playback state is stopped, no session
\* handle is held and the anchor is 0.
C10_StopCompletes ==
  ev.op = "stopDone" =>
    playbackState = "stopped" /\ session = 0 /\ nextStartTime = 0

\* C11: a stop request made in state stopped leaves the state stopped, and
\* stop() still re-initializes the audio system before it ends: the context
\* it finds is closed (its clock and its sources are gone, a resume awaited on
\* it is abandoned) and a new one is built with the anchor at 0 and the
\* connection-error flag cleared, unless the construction itself fails, which
\* leaves no context and the flag set.
C11_StopWhenStopped ==
  [][ (playbackState = "stopped"
        /\ (nRequests' = nRequests + 2 \/ ev'.op = "stopDone"))
        => /\ playbackState' = "stopped"
           /\ ev'.op = "stopDone"
                => /\ sources' = {}
                   /\ currentTime' = 0
                   /\ pending'["ctxResume"] = 0
                   /\ nextStartTime' = 0
                   /\ \/ audioContext' \in {"suspended", "running"} /\ ~connectionError'
                      \/ audioContext' = "none" /\ connectionError' ]_vars

\* A stop request made in state stopped, after a session had streamed, has
\* just run to its end, and a new context is in place.
C11_Witness ==
  /\ ev.op = "stopDone"
  /\ ev.req
  /\ ev.st = "stopped"
  /\ playbackState = "stopped"
  /\ audioContext # "none"
  /\ nChunks > 0

\* C12: the handler of a transport error and the handler of a close event of
\* a remote session, in whatever playback state they run, end with the state
\* stopped, the connection-error flag set and the server-setup-complete flag
\* cleared.
C12_ErrorOrCloseStops ==
  [][ ev'.op \in {"error", "close"}
        => /\ playbackState' = "stopped"
           /\ connectionError'
           /\ ~serverSetupComplete' ]_vars

\* A close event has just been handled in state playing on a set-up session.
C12_Witness ==
  /\ ev.op = "close"
  /\ ev.st = "playing"
  /\ playbackState = "stopped"
  /\ connectionError
  /\ ~serverSetupComplete

\* C13: play() never sends the play command on a session handle whose session
\* has had an error event or a close event: after such an event the next play
\* request connects afresh.
C13_NoPlayOnDeadHandle ==
  [][ pending'["resume"] > pending["resume"]
        => sessions[session].status \notin {"errored", "closed"} ]_vars

\* A connect to the remote service is initiated in this step.
ConnectInitiated ==
  \E s \in SessionIds :
    sessions[s].status = "unused" /\ sessions'[s].status = "connecting"

\* A step of play(): the step of a play request (togglePlayPause in state
\* stopped or paused), the continuation after the awaited resume of the audio
\* context, or the play() that applyDevSettings calls after its stop().  The
\* end of stop() closes the context and so abandons a resume awaited on it; it
\* is not a step of play().
PlayStep ==
  \/ /\ nRequests' = nRequests + 1
     /\ playbackState \in {"stopped", "paused"}
     /\ isRecording' = isRecording
  \/ pending'["ctxResume"] < pending["ctxResume"] /\ ev'.op # "stopDone"
  \/ pending'["devPlay"] < pending["devPlay"]

\* C14: a connect is initiated only in a step of play(), which runs when the
\* user presses play or applies the developer settings: in the step of the
\* request, after the awaited resume of the audio context, or after the
\* stop() of applyDevSettings.  The handler of an error event or of a close
\* event, a step in which a command or a connect fails, and the deferred
\* check initiate none.
C14_NoAutomaticReconnect ==
  [][ ConnectInitiated
        => /\ PlayStep
           /\ ev'.op \notin {"error", "close", "timerPlaying"}
           /\ nFaults' = nFaults
           /\ timers' = timers ]_vars

\* After a session has had an error event, a play request has initiated a
\* new connect.
C14_Witness ==
  /\ \E s \in SessionIds : sessions[s].status = "errored"
  /\ \E s \in SessionIds : sessions[s].status = "connecting"
  /\ playbackState = "loading"

\* C15: a step of play() in which the audio system cannot be built (the
\* constructor is missing or throws), so that there is no audio context after
\* it, ends in state stopped, initiates no connect and sends no play command
\* to any session.
C15_NoAudioNoPlayback ==
  [][ (PlayStep /\ audioContext' = "none")
        => /\ playbackState' = "stopped"
           /\ ~ConnectInitiated
           /\ pending'["resume"] = pending["resume"]
           /\ sessions' = sessions ]_vars

\* In an environment that has never built an audio context, the second play
\* request has just failed to build the audio system.
C15_Witness ==
  /\ ev.op = "audioFailed"
  /\ audioContext = "none"
  /\ playbackState = "stopped"
  /\ connectionError
  /\ nRequests = 2
  /\ nFaults = 0
  /\ \A s \in SessionIds : sessions[s].status = "unused"

\* C16: chunks are started in the order of their arrival: of two chunks
\* started on the same context's clock, the one whose message arrived first
\* (the smaller id) has the earlier start time.  A source that has ended
\* before another is started began before the clock value at which the other
\* is scheduled, and no chunk is started before the clock, so it is enough to
\* compare the sources that are waiting or sounding together.
C16_ArrivalOrder ==
  \A x \in sources, y \in sources : x.id < y.id => x.start < y.start

\* The sessions that are open and have been told to play: the server streams
\* chunks on them, and their onmessage callback hands the chunks to the
\* scheduler.
LiveSessions ==
  {s \in SessionIds : sessions[s].status = "open" /\ sessions[s].played}

\* C17: at most one remote session is live at any time.
C17_OneLiveSession == Cardinality(LiveSessions) <= 1

\* C18: whenever the prompt collection is not empty, at least one prompt has
\* a non-zero weight.
C18_SomeNonZeroWeight ==
  Len(prompts) > 0 => \E i \in 1..Len(prompts) : prompts[i].weight # 0

\* C19: a step that applies a knob configuration (from the setup screen or
\* from a preset) with at least one knob leaves a collection in which the
\* prompt with control-channel index 0, and it alone, has weight 1, and every
\* other prompt has weight 0.
C19_FirstPromptForced ==
  [][ (ev'.op \in {"knobs", "presetLoaded"} /\ Len(prompts') >= 1)
        => /\ Cardinality({i \in 1..Len(prompts') : prompts'[i].cc = 0}) = 1
           /\ \A i \in 1..Len(prompts') :
                prompts'[i].weight = IF prompts'[i].cc = 0 THEN 1 ELSE 0 ]_vars

\* A preset of several knobs has just been loaded while playing.
C19_Witness ==
  /\ ev.op = "presetLoaded"
  /\ Len(prompts) = MaxPrompts
  /\ playbackState = "playing"

\* C20: the argument of every setWeightedPrompts call has one entry for each
\* prompt of the collection as it is when the call is made, in order and with
\* that prompt's weight; and a prompt-changed event for an existing prompt,
\* handled while a session is held, the connection is not in error, the
\* server's setup is complete and the state is playing or paused, calls
\* setSessionPrompts.
C20_WholeCollectionPushed ==
  [][ /\ ev'.op = "pushed"
           => /\ Len(ev'.push) = Len(prompts')
              /\ \A i \in 1..Len(prompts') : ev'.push[i] = prompts'[i].weight
      /\ ( /\ ev'.op = "promptChange"
           /\ session # 0
           /\ ~connectionError
           /\ serverSetupComplete
           /\ playbackState \in {"playing", "paused"} )
           => ev'.asked /\ pending'["throttle"] > 0 ]_vars

\* In state paused the throttled function has just pushed the collection
\* after changes of its weights, a zero weight included.
C20_Witness ==
  /\ ev.op = "pushed"
  /\ pending["setPrompts"] > 0
  /\ playbackState = "paused"
  /\ Len(ev.push) = 2
  /\ ev.push[1] = 0
  /\ ev.push[2] = 2

\* C21: while the state is playing, every call of the throttled function in
\* a throttle window makes no setWeightedPrompts call itself and joins the
\* window's one pending invocation; the prompts change in an open window
\* only by the mutations of the burst; and the invocation at the end of the
\* window makes exactly one setWeightedPrompts call, whose argument is the
\* collection as the last mutation left it.
C21_ThrottledPush ==
  [][ /\ (ev'.op = "promptChange" /\ ev'.asked /\ playbackState = "playing")
        => /\ pending'["throttle"] = pending["throttle"] + 1
           /\ pending'["setPrompts"] = pending["setPrompts"]
      /\ (pending["throttle"] > 0 /\ prompts' # prompts)
        => ev'.op \in {"promptChange", "presetLoaded"}
      /\ ( /\ pending["throttle"] > 0
           /\ pending'["throttle"] = 0
           /\ playbackState = "playing"
           /\ Len(prompts) > 0 )
        => /\ ev'.op = "pushed"
           /\ ev'.calls = pending["throttle"]
           /\ ev'.push = [i \in 1..Len(prompts) |-> prompts[i].weight]
           /\ pending'["setPrompts"] = pending["setPrompts"] + 1 ]_vars

\* A burst of two prompt changes has just been answered by one push, made
\* while playing, that carries the weights the second change left.
C21_Witness ==
  /\ ev.op = "pushed"
  /\ ev.calls = 2
  /\ playbackState = "playing"
  /\ pending["setPrompts"] = 1
  /\ Len(ev.push) = 2
  /\ ev.push[1] = 2
  /\ ev.push[2] = 2

\* C22: when a prompt-changed event has been handled in state loading,
\* playing or paused on a session that is connected and usable, and from
\* then on the user asks for nothing more and nothing fails, eventually
\* setWeightedPrompts is called with the collection that holds the change.
C22_LatestStateReachesServer ==
  ( /\ quiet
    /\ ev.op = "promptChange"
    /\ playbackState \in {"loading", "playing", "paused"}
    /\ session # 0
    /\ ~connectionError
    /\ sessions[session].status = "open" )
  ~> ( /\ ev.op = "pushed"
       /\ ev.push = [i \in 1..Len(prompts) |-> prompts[i].weight] )

\* C23: when the throttled function is invoked with a session held, no
\* connection error, the invocation not deferred (deferred: setup not
\* complete while loading) and the collection empty, the step makes no
\* setWeightedPrompts call, the session it holds is closed, and the playback
\* state is stopped after it.
C23_EmptyPushAborts ==
  [][ ( /\ pending["throttle"] > 0
        /\ pending'["throttle"] = 0
        /\ session # 0
        /\ ~connectionError
        /\ ~(~serverSetupComplete /\ playbackState = "loading")
        /\ Len(prompts) = 0 )
        => /\ ev'.op = "pushAborted"
           /\ pending'["setPrompts"] = pending["setPrompts"]
           /\ session' = session
           /\ sessions'[session].status \in {"closing", "closed"}
           /\ playbackState' = "stopped" ]_vars

\* An empty preset was loaded on a session that had streamed: the invocation
\* that followed has just closed the session, which was open, and stopped
\* playback.
C23_Witness ==
  /\ ev.op = "pushAborted"
  /\ ev.calls >= 1
  /\ Len(prompts) = 0
  /\ playbackState = "stopped"
  /\ session # 0
  /\ sessions[session].status = "closing"
  /\ nChunks > 0

\* C24: a setup-complete message that finds the prompt collection empty
\* leaves the session that delivered it closed (its transport closing or
\* closed), the playback state stopped and the connection marked in error,
\* and neither pushes prompts nor sends the play command on that session.
C24_SetupWithoutPrompts ==
  [][ ev'.op = "setupEmpty"
        => /\ sessions'[ev'.sess].status \in {"closing", "closed"}
           /\ playbackState' = "stopped"
           /\ connectionError'
           /\ ~sessions'[ev'.sess].played
           /\ sessions'[ev'.sess].handler = "idle"
           /\ pending'["setPrompts"] = pending["setPrompts"] ]_vars

\* C25: a record-start and a record-stop (a toggle of the recording flag by
\* the user) both leave the recorded chunk sequence empty.
C25_RecordedBufferLifecycle ==
  [][ (nRequests' = nRequests + 1 /\ isRecording' # isRecording)
        => recordedAudioChunks' = << >> ]_vars

\* C26: whenever there is an audio context, the output node is connected to
\* exactly one node, and that node is the effects input when the
\* effects-active flag is true and the bypass node when it is false.
C26_OutputRouting ==
  audioContext # "none"
    => {e \in graph : e[1] = "output"} =
         {<<"output", IF isEffectsChainActive THEN "effectsInput"
                                              ELSE "effectsBypass">>}

\* C27: after applyEffectParameters(p) on an audio system that exists, the
\* kernel of the convolver is the impulse response that p names, the
\* delay-time and feedback targets are those of p, or 0 and 0 when p disables
\* the delay, and the filter has the type, frequency and Q of p, or is an
\* all-pass at half the sample rate with Q 1 when p disables the filter;
\* nothing of it depends on the settings before the call.
C27_ParametersReplaced ==
  [][ (ev'.op = "effectsApplied" /\ audioContext # "none")
        => LET p == ev'.params
           IN /\ fx'.buffer = p.reverb.impulseResponse
              /\ p.delay.enabled
                   => fx'.delayTime = p.delay.time /\ fx'.feedback = p.delay.feedback
              /\ ~p.delay.enabled => fx'.delayTime = 0 /\ fx'.feedback = 0
              /\ p.filter.enabled
                   => /\ fx'.type = p.filter.type
                      /\ fx'.frequency = p.filter.frequency
                      /\ fx'.q = p.filter.q
              /\ ~p.filter.enabled
                   => /\ fx'.type = "allpass"
                      /\ fx'.frequency = DEFAULT_SAMPLE_RATE \div 2
                      /\ fx'.q = 1 ]_vars

\* Parameters with the delay and the filter disabled have just been applied
\* over earlier ones that had enabled both.
C27_Witness ==
  /\ ev.op = "effectsApplied"
  /\ ~ev.params.delay.enabled
  /\ ~ev.params.filter.enabled
  /\ ev.prev.delayTime > 0
  /\ ev.prev.type = "highpass"
  /\ ev.prev.buffer # ev.params.reverb.impulseResponse
  /\ fx.type = "allpass"
  /\ fx.delayTime = 0

\* C28: in every state, a call of applyEffectParameters, whatever its
\* parameters and whether they enable the filter or not, leaves the
\* connections of the audio graph, the effects-active flag, the playback
\* state and the scheduling anchor as they are.
C28_ParametersOnly ==
  \A p \in EffectParameters :
    LET b == applyEffectParameters(Cur, p)
    IN /\ b.graph = graph
       /\ b.isEffectsChainActive = isEffectsChainActive
       /\ b.playbackState = playbackState
       /\ b.nextStartTime = nextStartTime

\* Parameters that disable the filter have just been applied while playing
\* through the effects chain, over a filter that was enabled, with chunks
\* scheduled ahead.
C28_Witness ==
  /\ ev.op = "effectsApplied"
  /\ ~ev.params.filter.enabled
  /\ ev.prev.type = "lowpass"
  /\ ev.prev.frequency = 1
  /\ playbackState = "playing"
  /\ nextStartTime > 0
  /\ isEffectsChainActive
  /\ <<"output", "effectsInput">> \in graph
  /\ <<"effectsInput", "filter">> \in graph

\* C29: a step that changes the scheduling anchor is a step of the chunk
\* handler, of stop() or of play() (the resume included); a step of pause(),
\* of a recording toggle, of the session's error or close callback leaves it
\* as it is, and so would, in every state, a prompt-changed event, a toggle
\* of the effects chain and the level-meter callback.
C29_AnchorOwnership ==
  [][ /\ nextStartTime' # nextStartTime
           => \/ ev'.op \in {"started", "underrun", "stopDone", "resumed"}
              \/ PlayStep
      /\ ( \/ ev'.op \in {"pause", "pauseSettled", "error", "close"}
           \/ (nRequests' = nRequests + 1 /\ isRecording' # isRecording) )
           => nextStartTime' = nextStartTime
      /\ \A i \in 1..MaxPrompts, w \in PromptWeights :
           onPromptChange(Cur, i, w).nextStartTime = nextStartTime
      /\ toggleEffectsChain(Cur, FALSE, FALSE).nextStartTime = nextStartTime
      /\ updateAudioLevel(Cur).nextStartTime = nextStartTime ]_vars

\* The user has just paused while chunks were scheduled ahead of the clock:
\* the anchor is still set.
C29_Witness ==
  /\ ev.op = "pause"
  /\ playbackState = "paused"
  /\ nextStartTime > currentTime
  /\ sources # {}
  /\ pending["pause"] = 1

\* C30: a rejected connect, and a rejected play command sent after setup,
\* end in state stopped; a rejected play command of the resume path ends in
\* state paused; the step in which the awaited pause command settles
\* (resolved or rejected, the catch only logs) leaves the state as pause()
\* set it; and the step in which the awaited stop command settles (resolved
\* or rejected, the catch only logs) ends in state stopped.
C30_RemoteFailureState ==
  [][ /\ ( /\ nFaults' = nFaults + 1
           /\ \E s \in SessionIds : /\ sessions[s].status = "connecting"
                                    /\ sessions'[s].status = "closed" )
           => playbackState' = "stopped"
      /\ ( /\ nFaults' = nFaults + 1
           /\ \E s \in SessionIds : /\ sessions[s].handler = "play"
                                    /\ sessions'[s].handler = "idle" )
           => playbackState' = "stopped"
      /\ ( /\ nFaults' = nFaults + 1
           /\ pending'["resume"] < pending["resume"] )
           => playbackState' = "paused"
      /\ ev'.op = "pauseSettled" => playbackState' = playbackState
      /\ ( \/ pending'["stopDev"] < pending["stopDev"]
           \/ pending'["stopRegen"] < pending["stopRegen"] )
           => playbackState' = "stopped" ]_vars

\* C31: for every byte array B, decode(encode(B)) returns, and returns B.
C31_Base64RoundTrip ==
  util.called = << "encode", "decode" >>
    => /\ ~util.bytes.threw
       /\ util.bytes.value = util.data

\* An array of four bytes, one more than a group, with the bytes 0 and 255,
\* has been encoded with padding and decoded.
C31_Witness ==
  /\ util.called = << "encode", "decode" >>
  /\ Len(util.data) = 4
  /\ \E i, j \in 1..4 : util.data[i] = 0 /\ util.data[j] = 255
  /\ Len(util.base64.value) = 8
  /\ util.base64.value[8] = "="
  /\ util.bytes.value = util.data

\* C32: for a byte stream that is not empty and whose length is a multiple
\* of 2 * channelCount, decodeAudioData returns a buffer of channelCount
\* channels with byteLength / 2 / channelCount samples each, where sample j
\* of channel c is the signed 16-bit little-endian number at the interleaved
\* position j * channelCount + c divided by 32768, which lies in [-1, 1].
C32_DecodedSamples ==
  ( /\ util.called # << >>
    /\ util.called[1] = "decodeAudioData"
    /\ Len(util.data) > 0
    /\ Len(util.data) % (2 * util.numChannels) = 0 )
  => LET b == util.audioBuffer.value
         n == (Len(util.data) \div 2) \div util.numChannels
     IN /\ ~util.audioBuffer.threw
        /\ b.numberOfChannels = util.numChannels
        /\ b.length = n
        /\ Len(b.channelData) = util.numChannels
        /\ \A c \in 0..(util.numChannels - 1) :
             /\ Len(b.channelData[c + 1]) = n
             /\ \A j \in 0..(n - 1) :
                  LET p == j * util.numChannels + c
                      lo == util.data[2 * p + 1]
                      hi == util.data[2 * p + 2]
                      v == IF hi >= 128 THEN lo + 256 * hi - 65536 ELSE lo + 256 * hi
                      x == b.channelData[c + 1][j + 1]
                  IN /\ x.den > 0
                     /\ x.num * 32768 = v * x.den
                     /\ 0 - x.den <= x.num
                     /\ x.num <= x.den

\* Two stereo frames have been decoded; the first sample of the second
\* channel is -1, and the second frame differs from the first.
C32_Witness ==
  /\ util.called # << >>
  /\ util.called[1] = "decodeAudioData"
  /\ util.numChannels = 2
  /\ Len(util.data) = 8
  /\ ~util.audioBuffer.threw
  /\ util.audioBuffer.value.length = 2
  /\ util.audioBuffer.value.channelData[2][1] = Sample(0 - 32768, 32768)
  /\ util.audioBuffer.value.channelData[1][1] # util.audioBuffer.value.channelData[1][2]
  /\ util.audioBuffer.value.channelData[1][2] # util.audioBuffer.value.channelData[2][2]

\* C33: decodeAudioData returns for every input, the empty one and those of
\* an invalid length included: the bytes beyond the last whole frame of
\* 2 * channelCount bytes are left out, and with no whole frame the result is
\* a buffer of a single silent sample.
C33_DecodeNeverFails ==
  ( /\ util.called # << >>
    /\ util.called[1] = "decodeAudioData" )
  => LET b == util.audioBuffer.value
         frames == Len(util.data) \div (2 * util.numChannels)
     IN /\ ~util.audioBuffer.threw
        /\ b.numberOfChannels = util.numChannels
        /\ frames = 0
             => /\ b.length = 1
                /\ \A c \in 1..util.numChannels :
                     /\ Len(b.channelData[c]) = 1
                     /\ b.channelData[c][1].num = 0
        /\ frames > 0
             => /\ b.length = frames
                /\ \A c \in 0..(util.numChannels - 1) : \A j \in 0..(frames - 1) :
                     LET p == j * util.numChannels + c
                         lo == util.data[2 * p + 1]
                         hi == util.data[2 * p + 2]
                         v == IF hi >= 128 THEN lo + 256 * hi - 65536 ELSE lo + 256 * hi
                         x == b.channelData[c + 1][j + 1]
                     IN x.num * 32768 = v * x.den

\* Three bytes, less than a stereo frame, have been decoded to a single
\* sample.
C33_Witness ==
  /\ util.called # << >>
  /\ util.called[1] = "decodeAudioData"
  /\ util.numChannels = 2
  /\ Len(util.data) = 3
  /\ \E i \in 1..3 : util.data[i] # 0
  /\ ~util.audioBuffer.threw
  /\ util.audioBuffer.value.length = 1

\* C34: for a buffer of n samples per channel and c channels, encodeWAV gives
\* exactly 44 + n * c * 2 bytes that begin with RIFF, have WAVE at offset 8,
\* the RIFF chunk size 36 + n * c * 2 at offset 4, the byte rate
\* sampleRate * 2 * c at offset 28, the block alignment 2 * c at offset 32 and
\* the data size n * c * 2 at offset 40.
C34_WavHeader ==
  util.called = << "decodeAudioData", "encodeWAV" >>
  => LET n == util.audioBuffer.value.length
         c == util.audioBuffer.value.numberOfChannels
         rate == util.audioBuffer.value.sampleRate
         U16(o) == util.wav[o + 1] + 256 * util.wav[o + 2]
         U32(o) == util.wav[o + 1] + 256 * util.wav[o + 2]
                   + 65536 * util.wav[o + 3] + 16777216 * util.wav[o + 4]
     IN /\ Len(util.wav) = 44 + n * c * 2
        /\ \A i \in 1..Len(util.wav) : util.wav[i] \in 0..255
        /\ SubSeq(util.wav, 1, 4) = << 82, 73, 70, 70 >>
        /\ SubSeq(util.wav, 9, 12) = << 87, 65, 86, 69 >>
        /\ U32(4) = 36 + n * c * 2
        /\ U32(28) = rate * 2 * c
        /\ U16(32) = 2 * c
        /\ U32(40) = n * c * 2

\* A stereo buffer of two frames at 44100 Hz has been encoded to 52 bytes.
C34_Witness ==
  /\ util.called = << "decodeAudioData", "encodeWAV" >>
  /\ util.audioBuffer.value.numberOfChannels = 2
  /\ util.audioBuffer.value.length = 2
  /\ util.audioBuffer.value.sampleRate = 44100
  /\ Len(util.wav) = 52
  /\ \E i \in 45..52 : util.wav[i] # 0

\* C35: generateImpulseResponse with the preset none returns a buffer of
\* length 1 whose sample is exactly 1; with each other preset it returns a
\* buffer of two channels whose length is the sample rate times the duration
\* of the preset: 4.0 s for cathedral, 0.8 s for small_room, 2.5 s for cave.
C35_ImpulseResponseShape ==
  util.called = << "generateImpulseResponse" >>
  => LET k == util.impulse
     IN /\ util.type = "none"
             => /\ k.length = 1
                /\ \A c \in 1..k.numberOfChannels :
                     /\ Len(k.content[c]) = 1
                     /\ k.content[c][1].num = k.content[c][1].den
                /\ k.numberOfChannels >= 1
        /\ util.type # "none"
             => /\ k.numberOfChannels = 2
                /\ util.type = "cathedral" => k.length = util.sampleRate * 4
                /\ util.type = "small_room" => k.length * 10 = util.sampleRate * 8
                /\ util.type = "cave" => k.length * 2 = util.sampleRate * 5

\* The kernel of the preset small_room has been generated at 44100 Hz: 35280
\* frames.
C35_Witness ==
  /\ util.called = << "generateImpulseResponse" >>
  /\ util.type = "small_room"
  /\ util.sampleRate = 44100
  /\ util.impulse.length = 35280

\* A step in which session.play() is called: the setup-complete handler goes
\* on to await it, or play() does on its resume path.
PlayCommandSent ==
  \/ \E s \in SessionIds : sessions[s].handler # "play" /\ sessions'[s].handler = "play"
  \/ pending'["resume"] > pending["resume"]

\* C36: session.play() is called only in a step that leaves the playback state
\* loading or playing; and the setup-complete handler, when it has awaited the
\* push of the prompts and finds the state paused or stopped, calls no
\* session.play().
C36_PlayOnlyWhenWanted ==
  [][ /\ PlayCommandSent => playbackState' \in {"loading", "playing"}
      /\ \A s \in SessionIds :
           ( /\ sessions[s].handler = "push"
             /\ sessions'[s].handler # "push"
             /\ playbackState \in {"paused", "stopped"} )
           => /\ ~PlayCommandSent
              /\ \A t \in SessionIds : sessions'[t].played => sessions[t].played ]_vars

\* The setup-complete message of an open session has been handled to its end
\* in state paused, nothing has failed, and the session was never told to play.
C36_Witness ==
  /\ playbackState = "paused"
  /\ nFaults = 0
  /\ \E s \in SessionIds :
       /\ sessions[s].status = "open"
       /\ sessions[s].setupSent
       /\ sessions[s].handler = "idle"
       /\ ~sessions[s].played

\* C37: session.play() is called on an open session only when that session's
\* setup-complete message has been handled and the whole prompt set has been
\* pushed to it since.
C37_PromptsBeforePlay ==
  [][ ( /\ PlayCommandSent
        /\ session' # 0
        /\ sessions'[session'].status = "open" )
        => /\ sessions'[session'].setupSent
           /\ sessions'[session'].prompted ]_vars

\* C38: the step that resumes a chunk handler after the decode appends the
\* chunk to the recording when recording is active, whether the chunk is then
\* started or discarded as an underrun; the recording changes in no other way
\* than by such an append or by being emptied, so a chunk dropped by the
\* paused/stopped check is never in it; and its chunks are in arrival order.
C38_RecordingFollowsDecode ==
  [][ /\ Len(decodeQueue') < Len(decodeQueue)
           => recordedAudioChunks' =
                IF isRecording THEN Append(recordedAudioChunks, Head(decodeQueue).id)
                ELSE recordedAudioChunks
      /\ Len(decodeQueue') >= Len(decodeQueue)
           => \/ recordedAudioChunks' = recordedAudioChunks
              \/ recordedAudioChunks' = << >>
      /\ ev'.op = "chunkDropped"
           => /\ decodeQueue' = decodeQueue
              /\ recordedAudioChunks' = recordedAudioChunks
      /\ \A i, j \in 1..Len(recordedAudioChunks') :
           i < j => recordedAudioChunks'[i] < recordedAudioChunks'[j] ]_vars

\* A chunk decoded while recording has just been discarded as an underrun: it
\* is the last chunk of the recording, and no source was made for it.
C38_Witness ==
  /\ ev.op = "underrun"
  /\ isRecording
  /\ recordedAudioChunks # << >>
  /\ \A src \in sources : src.id # recordedAudioChunks[Len(recordedAudioChunks)]

\* C39: a push of the prompts that fails while the state is playing or paused
\* and the server's setup is complete changes neither the playback state nor
\* the session (its handle, its transport, the connection-error and
\* setup-complete flags); one that fails while the state is loading or the
\* server's setup is not complete leaves the state stopped, the connection
\* marked as failed, the setup flag cleared and the session no longer open.
C39_PushFailure ==
  [][ ev'.op = "pushFailed"
        => /\ ( serverSetupComplete /\ playbackState \in {"playing", "paused"} )
                => /\ playbackState' = playbackState
                   /\ session' = session
                   /\ connectionError' = connectionError
                   /\ serverSetupComplete'
                   /\ session # 0 => sessions'[session].status = sessions[session].status
           /\ ( ~serverSetupComplete \/ playbackState = "loading" )
                => /\ playbackState' = "stopped"
                   /\ connectionError'
                   /\ ~serverSetupComplete'
                   /\ session' = session
                   /\ session # 0 => sessions'[session].status # "open" ]_vars

\* A push has just failed while loading on an open session: the session is
\* closing and unusable, and the state is stopped.
C39_Witness ==
  /\ ev.op = "pushFailed"
  /\ ev.st = "loading"
  /\ playbackState = "stopped"
  /\ connectionError
  /\ session # 0
  /\ sessions[session].status = "closing"

\* C40: the play() that applyDevSettings calls after its stop, when it finds
\* the setup not complete or the state playing, changes neither the playback
\* state, the anchor, the session nor any transport, and sends no command;
\* and in every state, play() before the setup is complete or in state
\* playing, and pause() in state stopped or paused, return the state they
\* were called in.
C40_GuardedRequests ==
  [][ /\ ( /\ pending'["devPlay"] < pending["devPlay"]
           /\ ~setupComplete \/ playbackState = "playing" )
           => /\ playbackState' = playbackState
              /\ nextStartTime' = nextStartTime
              /\ session' = session
              /\ sessions' = sessions
              /\ ~PlayCommandSent
              /\ pending' = [pending EXCEPT !["devPlay"] = @ - 1]
      /\ ( ~setupComplete \/ playbackState = "playing" )
           => \A ok \in BOOLEAN, susp \in BOOLEAN : play(Cur, ok, susp) = Cur
      /\ playbackState \in {"stopped", "paused"} => pause(Cur) = Cur ]_vars

\* applyDevSettings has just called play() in state playing: the state is
\* still playing.
C40_Witness ==
  /\ ev.op = "devPlay"
  /\ ev.st = "playing"
  /\ playbackState = "playing"
  /\ session # 0

====
